---- MODULE Spec2Model ----
(***************************************************************************)
(* Model of experiments/llm-tooling-benchmarks: average_statistics.py      *)
(* (collect_groups, average_group, aggregate_directory), the cost          *)
(* estimate and the summary loader of the plotting scripts, the charts of  *)
(* generate_merge_compare_plots.py and the post-processing commands of     *)
(* main.py.                                                                *)
(*                                                                         *)
(* A JSON value is a record [t, v, d]: t is its Python type after          *)
(* json.load ("int", "float", "bool", "null", "str", "nan", "inf"), v its  *)
(* payload and d a divisor (a float v/d; 1 for everything that was read).  *)
(* Python floats are modelled as IEEE-754 binary floats scaled down to     *)
(* Precision significand bits and a largest finite value FloatMax.         *)
(* A file name is the sequence of its characters.                          *)
(***************************************************************************)
EXTENDS Integers, Sequences, FiniteSets, TLC

VARIABLES
    file_list,    \* average_group: list(files), in the order supplied
    disk,         \* path -> content of the files read so far
    pc,           \* average_group: position in the function
    todo,         \* paths of sorted(file_list) not yet visited
    path,         \* the loop variable of line 65
    data,         \* read_json(path): sequence of [k, v] items
    idx,          \* position of the items() loop of line 70 in data
    sums,         \* dict key -> float, insertion ordered
    counts,       \* dict key -> int
    non_numeric,  \* dict key -> first non-numeric value
    key_order,    \* list of keys in first-seen order
    warnings,     \* list of warnings
    result,       \* the returned dict, insertion ordered
    raised,       \* the exception that left average_group, or "none"
    data_dir,     \* collect_groups: the names of the entries of data_dir
    pending,      \* entries data_dir.glob has not come to yet
    groups,       \* dict prefix -> list of paths, insertion ordered
    gpc,          \* collect_groups: position in the function
    model,        \* compute_cost_usd: the model argument
    avg_input_tokens,   \* compute_cost_usd: argument
    avg_output_tokens,  \* compute_cost_usd: argument
    ckey,         \* compute_cost_usd: key = normalize_model_key(model)
    cost,         \* what compute_cost_usd returned
    craised,      \* the exception that left compute_cost_usd, or "none"
    cpc,          \* compute_cost_usd: position in the function
    data_kind,    \* aggregate_directory: what the path data_dir is
    same_dir,     \* summary_dir is the same directory as data_dir
    tree,         \* the files of data_dir: name -> content
    tree0,        \* the files of data_dir when the pass started
    summary_made, \* the directory summary_dir exists
    summary,      \* the files of summary_dir when it is another directory
    written,      \* names of the artifacts written in this pass, in order
    printed,      \* the notices printed in this pass, in order
    dgroups,      \* aggregate_directory: groups
    dtodo,        \* items of sorted(groups.items()) not yet visited
    draised,      \* the exception that left aggregate_directory, or "none"
    dpc,          \* aggregate_directory: position in the function
    summary_file, \* load_merge1_summaries: what the summary file holds
    file_model,   \* the model group of the file name
    payload,      \* json.loads of the file: sequence of [k, v] items
    lidx,         \* position of the items() loop of line 89 in payload
    metrics,      \* dict metric -> float, insertion ordered
    stored,       \* metrics has been stored in results (line 106)
    lraised,      \* the exception that left the loader, or "none"
    lpc,          \* position in the body of the loop of line 70
    loaded,       \* merge-compare main: data, <<size, model, merge>> -> metrics
    metric_names, \* collect_metric_names(data)
    sizes_todo,   \* sizes of sorted(data.items()) not yet visited
    psize,        \* plot_for_size: size
    metrics_todo, \* plot_for_size: metric names not yet visited
    charts,       \* the files of OUTPUT_DIR: name -> the lines of the chart
    output_made,  \* the directory OUTPUT_DIR exists
    pnotice,      \* 'No summary files found.' has been printed
    ppc,          \* merge-compare main: position
    step,         \* main.py: the post-processing command that runs
    merge1_read,  \* the files generate_merge1_plots.py has read
    compare_read, \* the files generate_merge_compare_plots.py has read
    post_raised   \* the exception that ended a command, or "none"

avars == <<file_list, disk, pc, todo, path, data, idx, sums, counts,
           non_numeric, key_order, warnings, result, raised>>

gvars == <<data_dir, pending, groups, gpc>>

cvars == <<model, avg_input_tokens, avg_output_tokens, ckey, cost, craised,
           cpc>>

dvars == <<data_kind, same_dir, tree, tree0, summary_made, summary, written,
           printed, dgroups, dtodo, draised, dpc>>

lvars == <<summary_file, file_model, payload, lidx, metrics, stored, lraised,
           lpc>>

pvars == <<loaded, metric_names, sizes_todo, psize, metrics_todo, charts,
           output_made, pnotice, ppc>>

mvars == <<step, merge1_read, compare_read, post_raised>>

vars == <<avars, gvars, cvars, dvars, lvars, pvars, mvars>>

\* the state outside average_group, collect_groups, compute_cost_usd
besidesA == <<gvars, cvars, dvars, lvars, pvars, mvars>>
besidesG == <<avars, cvars, dvars, lvars, pvars, mvars>>
besidesC == <<avars, gvars, dvars, lvars, pvars, mvars>>
besidesD == <<avars, gvars, cvars, lvars, pvars, mvars>>
besidesL == <<avars, gvars, cvars, dvars, pvars, mvars>>
besidesP == <<avars, gvars, cvars, dvars, lvars, mvars>>
besidesM == <<avars, gvars, cvars, lvars, pvars>>

----------------------------------------------------------------------------
(* Bounds *)

\* significand bits of the scaled-down float (53 in CPython)
Precision == 2
\* largest binary exponent of the scaled-down float (1023 in CPython)
MaxExp == 4
\* most field occurrences in the records of one cohort
MaxOcc == 3
\* most entries of the data directory collect_groups scans
MaxEntries == 2
\* most summaries load_summaries has put into data
MaxLoaded == 4

----------------------------------------------------------------------------
(* Characters and file names *)

\* code point of a character, for str comparison
Ord(c) ==
    CASE c = "0" -> 48 [] c = "1" -> 49 [] c = "2" -> 50
      [] c = "." -> 46 [] c = "_" -> 95
      [] c = "a" -> 97 [] c = "b" -> 98 [] c = "d" -> 100 [] c = "i" -> 105
      [] c = "j" -> 106 [] c = "m" -> 109 [] c = "n" -> 110 [] c = "o" -> 111
      [] c = "r" -> 114 [] c = "s" -> 115 [] c = "u" -> 117 [] c = "x" -> 120
      [] c = "y" -> 121 [] c = "\n" -> 10 [] c = "I" -> 73 [] c = "D" -> 68
      [] c = "/" -> 47 [] c = "e" -> 101 [] c = "g" -> 103 [] c = "l" -> 108
      [] c = "z" -> 122

\* str.__lt__ : lexicographic by code point, a proper prefix first
RECURSIVE StrLess(_, _)
StrLess(a, b) ==
    IF b = <<>> THEN FALSE
    ELSE IF a = <<>> THEN TRUE
    ELSE IF Head(a) = Head(b) THEN StrLess(Tail(a), Tail(b))
    ELSE Ord(Head(a)) < Ord(Head(b))

\* the '_summary.json' every per-run file name ends with
SummarySuffix == <<"_", "s", "u", "m", "m", "a", "r", "y", ".", "j", "s", "o", "n">>

\* the per-run file <prefix>_id<token>_summary.json
RunFile(prefix, token) == prefix \o <<"_", "i", "d">> \o token \o SummarySuffix

\* the per-run files of the cohort handed to average_group
CohortFiles ==
    { RunFile(<<"a">>, tok) : tok \in { <<"1">>, <<"1", "0">>, <<"2">> } }

----------------------------------------------------------------------------
(* JSON values and Python floats *)

Keys == { "m", "number of runs" }

JInt(n) == [t |-> "int", v |-> n, d |-> 1]
JBool(b) == [t |-> "bool", v |-> IF b THEN 1 ELSE 0, d |-> 1]
JStr(n) == [t |-> "str", v |-> n, d |-> 1]
JNull == [t |-> "null", v |-> 0, d |-> 1]
JNaN == [t |-> "nan", v |-> 0, d |-> 1]
JInf == [t |-> "inf", v |-> 0, d |-> 1]
\* the float v / d
JFloat(v, d) == [t |-> "float", v |-> v, d |-> d]

RECURSIVE Pow2(_)
Pow2(n) == IF n = 0 THEN 1 ELSE 2 * Pow2(n - 1)

\* largest finite float: (2^Precision - 1) * 2^(MaxExp - Precision + 1)
FloatMax == (Pow2(Precision) - 1) * Pow2(MaxExp - Precision + 1)

\* stands for float('inf') among the float payloads
PosInf == FloatMax + 1

\* the spacing of the floats around x >= 0
RECURSIVE Quantum(_, _)
Quantum(x, q) == IF x < Pow2(Precision) * q THEN q ELSE Quantum(x, 2 * q)

\* x >= 0 rounded to the nearest float, ties to the even significand
RoundNearestEven(x) ==
    LET q == Quantum(x, 1)
        lo == (x \div q) * q
        r == x - lo
    IN  IF 2 * r < q THEN lo
        ELSE IF 2 * r > q THEN lo + q
        ELSE IF (x \div q) % 2 = 0 THEN lo ELSE lo + q

\* float + float
FAdd(a, b) ==
    IF a = PosInf \/ b = PosInf THEN PosInf
    ELSE LET r == RoundNearestEven(a + b)
         IN  IF r > FloatMax THEN PosInf ELSE r

\* float(value) of an int or a finite float: the payload, or "OverflowError"
FloatOf(value) ==
    IF value.t = "int"
    THEN LET r == RoundNearestEven(value.v)
         IN  IF r > FloatMax THEN [err |-> "OverflowError", f |-> 0]
             ELSE [err |-> "none", f |-> r]
    ELSE [err |-> "none", f |-> value.v]

\* is_number(value): "True", "False", or the exception float(value) raises
is_number(value) ==
    IF value.t \notin { "int", "float", "nan", "inf", "bool" } THEN "False"
    ELSE IF value.t = "bool" THEN "False"
    ELSE IF value.t \in { "nan", "inf" } THEN "False"
    ELSE IF FloatOf(value).err # "none" THEN FloatOf(value).err
    ELSE "True"

\* value != other, for the values that reach the non-numeric branch
PyNe(value, other) == value.t = "nan" \/ other.t = "nan" \/ value # other

----------------------------------------------------------------------------
(* Python dicts: insertion-ordered sequences of [k, v] items *)

DictKeys(dict) == { dict[i].k : i \in DOMAIN dict }

DictHas(dict, key) == key \in DictKeys(dict)

DictGet(dict, key) == dict[CHOOSE i \in DOMAIN dict : dict[i].k = key].v

\* defaultdict.__getitem__ as read by an augmented assignment
DictGetDefault(dict, key, default) ==
    IF DictHas(dict, key) THEN DictGet(dict, key) ELSE default

\* dict[key] = value: an existing key keeps its position
DictSet(dict, key, value) ==
    IF DictHas(dict, key)
    THEN [i \in DOMAIN dict |->
            IF dict[i].k = key THEN [k |-> key, v |-> value] ELSE dict[i]]
    ELSE Append(dict, [k |-> key, v |-> value])

----------------------------------------------------------------------------
(* The files average_group reads *)

\* the values field "m" of a per-run record takes: 1, 4, an int beyond the
\* float range, true, null, a string, NaN, Infinity
InputValues ==
    { JInt(1), JInt(4), JInt(2 * FloatMax), JBool(TRUE), JNull, JStr(1),
      JNaN, JInf }

\* the values a user field named like the synthetic run count takes
RunCountValues == { JInt(4), JStr(1) }

Items ==
    [k : {"m"}, v : InputValues] \cup [k : {"number of runs"}, v : RunCountValues]

\* the JSON objects of at most n fields: items in file order, keys distinct
Objects(n) ==
    { o \in UNION { [1..len -> Items] : len \in 0..n } :
        \A i, j \in DOMAIN o : o[i].k = o[j].k => i = j }

\* what a file holds: a JSON object, other JSON, or no JSON at all
Contents(n) ==
    { [kind |-> "object", items |-> o] : o \in Objects(n) }
    \cup { [kind |-> "not-object", items |-> <<>>],
           [kind |-> "not-json", items |-> <<>>] }

\* field occurrences in the files read so far
RECURSIVE Occurrences(_, _)
Occurrences(d, paths) ==
    IF paths = {} THEN 0
    ELSE LET p == CHOOSE q \in paths : TRUE
         IN  Len(d[p].items) + Occurrences(d, paths \ {p})

\* the lists of distinct paths over a set of files
Lists(files) ==
    { l \in UNION { [1..len -> files] : len \in 0..Cardinality(files) } :
        \A i, j \in DOMAIN l : l[i] = l[j] => i = j }

----------------------------------------------------------------------------
(* average_group, lines 54-108 *)

\* sorted(file_list): paths of one directory compare by name
RECURSIVE Insert(_, _)
Insert(p, sorted) ==
    IF sorted = <<>> THEN <<p>>
    ELSE IF StrLess(p, Head(sorted)) THEN <<p>> \o sorted
    ELSE <<Head(sorted)>> \o Insert(p, Tail(sorted))

\* the files visited in the order supplied
AsSupplied(files) == files

RECURSIVE Sorted(_)
Sorted(files) ==
    IF files = <<>> THEN <<>>
    ELSE Insert(Head(files), Sorted(Tail(files)))

\* read_json without the check of lines 39-40: JSON that is no object is
\* taken for an empty object
read_json_unchecked(content) ==
    IF content.kind = "not-json" THEN [err |-> "JSONDecodeError", data |-> <<>>]
    ELSE [err |-> "none", data |-> content.items]

\* read_json(path): the object's items, or the exception raised
read_json(content) ==
    IF content.kind = "not-json" THEN [err |-> "JSONDecodeError", data |-> <<>>]
    ELSE IF content.kind # "object" THEN [err |-> "ValueError", data |-> <<>>]
    ELSE [err |-> "none", data |-> content.items]

\* key_order taken from the first record with fields only
KeyOrderOfFirstRecord(order, items) ==
    IF order # <<>> THEN order ELSE [i \in DOMAIN items |-> items[i].k]

\* lines 67-69: append the keys of data not yet in key_order
RECURSIVE KeyOrderUpdate(_, _)
KeyOrderUpdate(order, items) ==
    IF items = <<>> THEN order
    ELSE LET key == Head(items).k
             seen == \E i \in DOMAIN order : order[i] = key
         IN  KeyOrderUpdate(IF seen THEN order ELSE Append(order, key),
                            Tail(items))

\* line 72: sums[key] += float(value)
SumsAdd(dict, key, value) ==
    DictSet(dict, key, FAdd(DictGetDefault(dict, key, 0), FloatOf(value).f))

\* counts[key] = 1 in place of the increment
CountsAddNoIncrement(dict, key) == DictSet(dict, key, 1)

\* line 73: counts[key] += 1
CountsAdd(dict, key) == DictSet(dict, key, DictGetDefault(dict, key, 0) + 1)

InconsistentWarning(key, name) ==
    [w |-> "inconsistent", key |-> key, name |-> name, count |-> 0, total |-> 0]

MissingWarning(key, name) ==
    [w |-> "missing", key |-> key, name |-> name, count |-> 0, total |-> 0]

CoverageWarning(key, count, total) ==
    [w |-> "coverage", key |-> key, name |-> <<>>, count |-> count, total |-> total]

\* lines 75-79: the warnings after a non-numeric occurrence
NonNumericWarnings(warns, first, key, value, name) ==
    IF DictHas(first, key) /\ PyNe(value, DictGet(first, key))
    THEN Append(warns, InconsistentWarning(key, name))
    ELSE warns

\* non_numeric[key] = value at every occurrence: the last value wins
NonNumericSetLast(first, key, value) == DictSet(first, key, value)

\* lines 75-81: non_numeric after a non-numeric occurrence
NonNumericSet(first, key, value) ==
    IF DictHas(first, key) THEN first ELSE DictSet(first, key, value)

\* lines 82-84: a warning for every key of sums whose count is 0
RECURSIVE MissingWarnings(_, _, _, _)
MissingWarnings(warns, sumItems, cnts, name) ==
    IF sumItems = <<>> THEN warns
    ELSE LET key == Head(sumItems).k
         IN  MissingWarnings(
                 IF DictGetDefault(cnts, key, 0) = 0
                 THEN Append(warns, MissingWarning(key, name)) ELSE warns,
                 Tail(sumItems), cnts, name)

\* the loop over key_order with the branches swapped: a key with a
\* non-numeric value is copied through, its numeric occurrences ignored
RECURSIVE KeyOrderLoopNonNumericFirst(_, _, _, _, _, _)
KeyOrderLoopNonNumericFirst(st, order, sms, cnts, first, total_files) ==
    IF order = <<>> THEN st
    ELSE LET key == Head(order)
             count == DictGetDefault(cnts, key, 0)
             next ==
                 IF DictHas(first, key)
                 THEN [result |-> DictSet(st.result, key, DictGet(first, key)),
                       warnings |-> st.warnings]
                 ELSE IF DictHas(sms, key) /\ count # 0
                 THEN [result |->
                           DictSet(st.result, key, JFloat(DictGet(sms, key), count)),
                       warnings |->
                           IF count # total_files
                           THEN Append(st.warnings,
                                       CoverageWarning(key, count, total_files))
                           ELSE st.warnings]
                 ELSE st
         IN  KeyOrderLoopNonNumericFirst(next, Tail(order), sms, cnts, first,
                                         total_files)

\* lines 88-99: the loop over key_order, from the state [result, warnings]
RECURSIVE KeyOrderLoop(_, _, _, _, _, _)
KeyOrderLoop(st, order, sms, cnts, first, total_files) ==
    IF order = <<>> THEN st
    ELSE LET key == Head(order)
             count == DictGetDefault(cnts, key, 0)
             next ==
                 IF DictHas(sms, key)
                 THEN IF count = 0 THEN st
                      ELSE [result |->
                                DictSet(st.result, key,
                                        JFloat(DictGet(sms, key), count)),
                            warnings |->
                                IF count # total_files
                                THEN Append(st.warnings,
                                            CoverageWarning(key, count, total_files))
                                ELSE st.warnings]
                 ELSE IF DictHas(first, key)
                 THEN [result |-> DictSet(st.result, key, DictGet(first, key)),
                       warnings |-> st.warnings]
                 ELSE st
         IN  KeyOrderLoop(next, Tail(order), sms, cnts, first, total_files)

\* lines 102-104: numeric keys that never appeared in key_order
RECURSIVE SumsLoop(_, _, _)
SumsLoop(res, sumItems, cnts) ==
    IF sumItems = <<>> THEN res
    ELSE LET key == Head(sumItems).k
             count == DictGetDefault(cnts, key, 0)
         IN  SumsLoop(
                 IF ~DictHas(res, key) /\ count # 0
                 THEN DictSet(res, key, JFloat(Head(sumItems).v, count))
                 ELSE res,
                 Tail(sumItems), cnts)

\* result.setdefault("number of runs", total_files): a user field survives
SetRunCountDefault(res, total_files) ==
    IF DictHas(res, "number of runs") THEN res
    ELSE Append(res, [k |-> "number of runs", v |-> JInt(total_files)])

\* line 106: result["number of runs"] = total_files
SetRunCount(res, total_files) == DictSet(res, "number of runs", JInt(total_files))

\* lines 86-108: [result, warnings] as returned
BuildResult(order, sms, cnts, first, warns, files) ==
    LET total_files == Len(files)
        st == KeyOrderLoop([result |-> <<>>, warnings |-> warns],
                           order, sms, cnts, first, total_files)
    IN  [result |-> SetRunCount(SumsLoop(st.result, sms, cnts), total_files),
         warnings |-> st.warnings]

\* the locals of average_group as one record
Locals(sms, cnts, first, order, warns, exc) ==
    [sums |-> sms, counts |-> cnts, non_numeric |-> first, key_order |-> order,
     warnings |-> warns, raised |-> exc]

\* lines 55-59
EmptyLocals == Locals(<<>>, <<>>, <<>>, <<>>, <<>>, "none")

\* lines 70-81: one (key, value) of data.items() of the file called name
ItemStep(st, name, item) ==
    LET key == item.k
        value == item.v
        num == is_number(value)
    IN  IF num = "True"
        THEN [st EXCEPT !.sums = SumsAdd(st.sums, key, value),
                        !.counts = CountsAdd(st.counts, key)]
        ELSE IF num = "False"
        THEN [st EXCEPT !.warnings = NonNumericWarnings(st.warnings,
                                         st.non_numeric, key, value, name),
                        !.non_numeric = NonNumericSet(st.non_numeric, key, value)]
        ELSE [st EXCEPT !.raised = num]

\* lines 82-84, after the items of the file called name
EndFileStep(st, name) ==
    [st EXCEPT !.warnings = MissingWarnings(st.warnings, st.sums, st.counts, name)]

\* lines 70-81 over the items of one file, up to an exception
RECURSIVE ItemsLoop(_, _, _)
ItemsLoop(st, name, items) ==
    IF items = <<>> \/ st.raised # "none" THEN st
    ELSE ItemsLoop(ItemStep(st, name, Head(items)), name, Tail(items))

\* lines 66-84: one iteration of the loop over the sorted files
FileStep(st, name, content) ==
    LET r == read_json(content)
    IN  IF r.err # "none" THEN [st EXCEPT !.raised = r.err]
        ELSE LET read == [st EXCEPT !.key_order = KeyOrderUpdate(st.key_order, r.data)]
                 after == ItemsLoop(read, name, r.data)
             IN  IF after.raised # "none" THEN after ELSE EndFileStep(after, name)

\* lines 65-84 over the paths, up to an exception
RECURSIVE FilesLoop(_, _, _)
FilesLoop(st, paths, d) ==
    IF paths = <<>> \/ st.raised # "none" THEN st
    ELSE FilesLoop(FileStep(st, Head(paths), d[Head(paths)]), Tail(paths), d)

\* average_group(files) over the directory d: [result, warnings], or the
\* exception that leaves it
average_group(files, d) ==
    IF files = <<>> THEN [result |-> <<>>, warnings |-> <<>>, raised |-> "none"]
    ELSE LET st == FilesLoop(EmptyLocals, Sorted(files), d)
             r == BuildResult(st.key_order, st.sums, st.counts, st.non_numeric,
                              st.warnings, files)
         IN  IF st.raised # "none"
             THEN [result |-> <<>>, warnings |-> <<>>, raised |-> st.raised]
             ELSE [result |-> r.result, warnings |-> r.warnings, raised |-> "none"]

----------------------------------------------------------------------------
(* average_group step by step *)


NoFile == [p \in {} |-> 0]

\* average_group is not running
AIdle ==
    /\ file_list = <<>>
    /\ disk = NoFile
    /\ pc = "idle"
    /\ todo = <<>>
    /\ path = <<>>
    /\ data = <<>>
    /\ idx = 0
    /\ sums = <<>>
    /\ counts = <<>>
    /\ non_numeric = <<>>
    /\ key_order = <<>>
    /\ warnings = <<>>
    /\ result = <<>>
    /\ raised = "none"

\* collect_groups is not running
GIdle ==
    /\ data_dir = {}
    /\ pending = {}
    /\ groups = <<>>
    /\ gpc = "idle"

\* compute_cost_usd is not running
CIdle ==
    /\ model = [t |-> "null", v |-> 0, d |-> 1]
    /\ avg_input_tokens = [t |-> "null", v |-> 0, d |-> 1]
    /\ avg_output_tokens = [t |-> "null", v |-> 0, d |-> 1]
    /\ ckey = <<>>
    /\ cost = [t |-> "null", v |-> 0, d |-> 1]
    /\ craised = "none"
    /\ cpc = "idle"

\* aggregate_directory is not running
DIdle ==
    /\ data_kind = "missing"
    /\ same_dir = FALSE
    /\ tree = NoFile
    /\ tree0 = NoFile
    /\ summary_made = FALSE
    /\ summary = NoFile
    /\ written = <<>>
    /\ printed = <<>>
    /\ dgroups = <<>>
    /\ dtodo = <<>>
    /\ draised = "none"
    /\ dpc = "idle"

\* the plotting loader is not running
LIdle ==
    /\ summary_file = [kind |-> "not-json", items |-> <<>>]
    /\ file_model = <<>>
    /\ payload = <<>>
    /\ lidx = 0
    /\ metrics = <<>>
    /\ stored = FALSE
    /\ lraised = "none"
    /\ lpc = "idle"

PIdle ==
    /\ loaded = NoFile
    /\ metric_names = <<>>
    /\ sizes_todo = <<>>
    /\ psize = 0
    /\ metrics_todo = <<>>
    /\ charts = NoFile
    /\ output_made = FALSE
    /\ pnotice = FALSE
    /\ ppc = "idle"

MIdle ==
    /\ step = "idle"
    /\ merge1_read = {}
    /\ compare_read = {}
    /\ post_raised = "none"

AInit ==
    /\ file_list \in Lists(CohortFiles)
    /\ disk = NoFile
    /\ pc = "call"
    /\ todo = <<>>
    /\ path = <<>>
    /\ data = <<>>
    /\ idx = 0
    /\ sums = <<>>
    /\ counts = <<>>
    /\ non_numeric = <<>>
    /\ key_order = <<>>
    /\ warnings = <<>>
    /\ result = <<>>
    /\ raised = "none"
    /\ GIdle
    /\ CIdle
    /\ DIdle
    /\ LIdle
    /\ PIdle
    /\ MIdle

\* lines 61-65: an empty list returns ({}, []); otherwise the files are sorted
Start ==
    /\ pc = "call"
    /\ pc' = IF file_list = <<>> THEN "done" ELSE "loop"
    /\ todo' = Sorted(file_list)
    /\ UNCHANGED <<file_list, disk, path, data, idx, sums, counts, non_numeric,
                   key_order, warnings, result, raised>>
    /\ UNCHANGED besidesA

\* lines 65-69: the next path is read and its keys join key_order
ReadFile ==
    /\ pc = "loop"
    /\ todo # <<>>
    /\ \E content \in Contents(MaxOcc - Occurrences(disk, DOMAIN disk)) :
         LET r == read_json(content)
         IN  /\ disk' = (Head(todo) :> content) @@ disk
             /\ raised' = r.err
             /\ pc' = IF r.err = "none" THEN "items" ELSE "raised"
             /\ data' = r.data
             /\ key_order' = KeyOrderUpdate(key_order, r.data)
    /\ path' = Head(todo)
    /\ todo' = Tail(todo)
    /\ idx' = 1
    /\ UNCHANGED <<file_list, sums, counts, non_numeric, warnings, result>>
    /\ UNCHANGED besidesA

\* lines 70-81: one (key, value) of data.items()
Item ==
    /\ pc = "items"
    /\ idx <= Len(data)
    /\ LET st == ItemStep(Locals(sums, counts, non_numeric, key_order, warnings,
                                 raised), path, data[idx])
       IN  /\ sums' = st.sums
           /\ counts' = st.counts
           /\ non_numeric' = st.non_numeric
           /\ warnings' = st.warnings
           /\ raised' = st.raised
           /\ pc' = IF st.raised = "none" THEN "items" ELSE "raised"
    /\ idx' = idx + 1
    /\ UNCHANGED <<file_list, disk, todo, path, data, key_order, result>>
    /\ UNCHANGED besidesA

\* lines 82-84: after the items of a file
EndFile ==
    /\ pc = "items"
    /\ idx > Len(data)
    /\ warnings' = EndFileStep(Locals(sums, counts, non_numeric, key_order,
                                      warnings, raised), path).warnings
    /\ pc' = "loop"
    /\ UNCHANGED <<file_list, disk, todo, path, data, idx, sums, counts,
                   non_numeric, key_order, result, raised>>
    /\ UNCHANGED besidesA

\* lines 86-108: the result is built and returned
Finish ==
    /\ pc = "loop"
    /\ todo = <<>>
    /\ LET r == BuildResult(key_order, sums, counts, non_numeric, warnings,
                            file_list)
       IN  /\ result' = r.result
           /\ warnings' = r.warnings
    /\ pc' = "done"
    /\ UNCHANGED <<file_list, disk, todo, path, data, idx, sums, counts,
                   non_numeric, key_order, raised>>
    /\ UNCHANGED besidesA

Init == AInit

Next == Start \/ ReadFile \/ Item \/ EndFile \/ Finish

Spec == Init /\ [][Next]_vars

----------------------------------------------------------------------------
(* collect_groups, lines 28 and 44-51 *)

\* the entry names of the data directory: <prefix><run id part><ending>
DirNames ==
    { pre \o mid \o suf :
        pre \in { <<"a">>, <<"a", "_", "i", "d", "1">>, <<>>, <<"a", "\n">> },
        mid \in { <<"_", "i", "d", "1">>, <<"_", "i", "d", "2">>,
                  <<"_", "i", "d">>, <<"_", "i", "d", "1", "_", "2">>,
                  <<"_", "I", "D", "1">>, <<>> },
        suf \in { SummarySuffix, SummarySuffix \o <<"\n">>,
                  <<"_", "s", "u", "m", "m", "a", "r", "y", "x", "j", "s", "o", "n">> } }

\* the directories of at most n entries
RECURSIVE Directories(_)
Directories(n) ==
    IF n = 0 THEN { {} }
    ELSE LET smaller == Directories(n - 1)
         IN  smaller \cup { d \cup { name } : d \in smaller, name \in DirNames }

\* s[from..] (empty past the end)
Drop(s, n) == SubSeq(s, n + 1, Len(s))

\* '$': at the end of the string, or before a newline that ends it
AtDollar(s) == s = <<>> \/ s = <<"\n">>

\* '_summary\.json$' matches all of s
SuffixMatches(s) ==
    /\ Len(s) >= Len(SummarySuffix)
    /\ SubSeq(s, 1, Len(SummarySuffix)) = SummarySuffix
    /\ AtDollar(Drop(s, Len(SummarySuffix)))

\* '_id.+_summary\.json$' matches all of s: any characters for the run id
RestMatchesAnyToken(s) ==
    /\ Len(s) >= 3
    /\ SubSeq(s, 1, 3) = <<"_", "i", "d">>
    /\ \E m \in 1..(Len(s) - 3) : SuffixMatches(Drop(s, 3 + m))

\* '_id[^_]+_summary\.json$' matches all of s: [^_]+ takes some m >= 1
\* characters other than '_'
RestMatches(s) ==
    /\ Len(s) >= 3
    /\ SubSeq(s, 1, 3) = <<"_", "i", "d">>
    /\ \E m \in 1..(Len(s) - 3) :
         /\ \A i \in 4..(3 + m) : s[i] # "_"
         /\ SuffixMatches(Drop(s, 3 + m))

\* the lengths k of a prefix '.+' (no newline in it) after which the rest
\* of the pattern matches
PrefixLengths(name) ==
    { k \in 1..Len(name) :
        /\ \A i \in 1..k : name[i] # "\n"
        /\ RestMatches(Drop(name, k)) }

\* SUMMARY_PATTERN.match(name): '.+' is greedy, so the longest prefix wins
SUMMARY_PATTERN(name) ==
    IF PrefixLengths(name) = {} THEN [match |-> FALSE, prefix |-> <<>>]
    ELSE LET k == CHOOSE n \in PrefixLengths(name) :
                      \A j \in PrefixLengths(name) : j <= n
         IN  [match |-> TRUE, prefix |-> SubSeq(name, 1, k)]

\* data_dir.glob("*.json") yields the entries whose name ends in '.json'
GlobJson(name) ==
    /\ Len(name) >= 5
    /\ Drop(name, Len(name) - 5) = <<".", "j", "s", "o", "n">>

\* lines 47-50: groups after the loop body for the entry called name
GroupsAdd(grps, name) ==
    LET m == SUMMARY_PATTERN(name)
    IN  IF m.match
        THEN DictSet(grps, m.prefix,
                     Append(DictGetDefault(grps, m.prefix, <<>>), name))
        ELSE grps

GInit ==
    /\ data_dir \in Directories(MaxEntries)
    /\ pending = data_dir
    /\ groups = <<>>
    /\ gpc = "glob"
    /\ AIdle
    /\ CIdle
    /\ DIdle
    /\ LIdle
    /\ PIdle
    /\ MIdle

\* lines 46-50: the directory scan comes to an entry, in no particular
\* order; an entry the glob pattern rejects is passed over
GlobNext ==
    /\ gpc = "glob"
    /\ \E name \in pending :
         /\ pending' = pending \ { name }
         /\ groups' = IF GlobJson(name) THEN GroupsAdd(groups, name) ELSE groups
    /\ UNCHANGED <<data_dir, gpc>>
    /\ UNCHANGED besidesG

\* line 51: the scan is over and groups is returned
GlobEnd ==
    /\ gpc = "glob"
    /\ pending = {}
    /\ gpc' = "done"
    /\ UNCHANGED <<data_dir, pending, groups>>
    /\ UNCHANGED besidesG

GNext == GlobNext \/ GlobEnd

SpecGroups == GInit /\ [][GNext]_vars

----------------------------------------------------------------------------
(* prices.py and the cost estimator of generate_merge1_plots.py (lines      *)
(* 38-61; generate_merge_compare_plots.py lines 88-110 are the same code).  *)
(* A str whose characters matter is the value [t |-> "text", v |-> chars].  *)

\* prices.py, in insertion order; the prices in cents per 1,000,000 tokens
PRICES ==
    << [k |-> <<"g", "r", "o", "k", "-", "3", "-", "f", "a", "s", "t">>,
        v |-> [input |-> 30, output |-> 50]],
       [k |-> <<"g", "p", "t", "-", "5">>,
        v |-> [input |-> 125, output |-> 1000]],
       [k |-> <<"g", "p", "t", "-", "5", "-", "m", "i", "n", "i">>,
        v |-> [input |-> 25, output |-> 200]],
       [k |-> <<"g", "p", "t", "-", "5", "-", "n", "a", "n", "o">>,
        v |-> [input |-> 5, output |-> 40]],
       [k |-> <<"g", "p", "t", "-", "5", "-", "c", "h", "a", "t", "-", "l", "a", "t", "e", "s", "t">>,
        v |-> [input |-> 125, output |-> 1000]],
       [k |-> <<"g", "p", "t", "-", "5", "-", "c", "o", "d", "e", "x">>,
        v |-> [input |-> 125, output |-> 1000]],
       [k |-> <<"g", "p", "t", "-", "5", "-", "p", "r", "o">>,
        v |-> [input |-> 1500, output |-> 12000]],
       [k |-> <<"g", "p", "t", "-", "4", ".", "1">>,
        v |-> [input |-> 200, output |-> 800]],
       [k |-> <<"g", "p", "t", "-", "4", ".", "1", "-", "m", "i", "n", "i">>,
        v |-> [input |-> 40, output |-> 160]],
       [k |-> <<"g", "p", "t", "-", "4", ".", "1", "-", "n", "a", "n", "o">>,
        v |-> [input |-> 10, output |-> 40]],
       [k |-> <<"g", "p", "t", "-", "4", "o">>,
        v |-> [input |-> 250, output |-> 1000]],
       [k |-> <<"g", "p", "t", "-", "4", "o", "-", "2", "0", "2", "4", "-", "0", "5", "-", "1", "3">>,
        v |-> [input |-> 500, output |-> 1500]],
       [k |-> <<"g", "p", "t", "-", "4", "o", "-", "m", "i", "n", "i">>,
        v |-> [input |-> 15, output |-> 60]],
       [k |-> <<"g", "p", "t", "-", "r", "e", "a", "l", "t", "i", "m", "e">>,
        v |-> [input |-> 400, output |-> 1600]],
       [k |-> <<"g", "p", "t", "-", "r", "e", "a", "l", "t", "i", "m", "e", "-", "m", "i", "n", "i">>,
        v |-> [input |-> 60, output |-> 240]],
       [k |-> <<"g", "p", "t", "-", "4", "o", "-", "r", "e", "a", "l", "t", "i", "m", "e", "-", "p", "r", "e", "v", "i", "e", "w">>,
        v |-> [input |-> 500, output |-> 2000]],
       [k |-> <<"g", "p", "t", "-", "4", "o", "-", "m", "i", "n", "i", "-", "r", "e", "a", "l", "t", "i", "m", "e", "-", "p", "r", "e", "v", "i", "e", "w">>,
        v |-> [input |-> 60, output |-> 240]],
       [k |-> <<"g", "p", "t", "-", "a", "u", "d", "i", "o">>,
        v |-> [input |-> 250, output |-> 1000]],
       [k |-> <<"g", "p", "t", "-", "a", "u", "d", "i", "o", "-", "m", "i", "n", "i">>,
        v |-> [input |-> 60, output |-> 240]],
       [k |-> <<"g", "p", "t", "-", "4", "o", "-", "a", "u", "d", "i", "o", "-", "p", "r", "e", "v", "i", "e", "w">>,
        v |-> [input |-> 250, output |-> 1000]],
       [k |-> <<"g", "p", "t", "-", "4", "o", "-", "m", "i", "n", "i", "-", "a", "u", "d", "i", "o", "-", "p", "r", "e", "v", "i", "e", "w">>,
        v |-> [input |-> 15, output |-> 60]],
       [k |-> <<"o", "1">>,
        v |-> [input |-> 1500, output |-> 6000]],
       [k |-> <<"o", "1", "-", "p", "r", "o">>,
        v |-> [input |-> 15000, output |-> 60000]],
       [k |-> <<"o", "3", "-", "p", "r", "o">>,
        v |-> [input |-> 2000, output |-> 8000]],
       [k |-> <<"o", "3">>,
        v |-> [input |-> 200, output |-> 800]],
       [k |-> <<"o", "3", "-", "d", "e", "e", "p", "-", "r", "e", "s", "e", "a", "r", "c", "h">>,
        v |-> [input |-> 1000, output |-> 4000]],
       [k |-> <<"o", "4", "-", "m", "i", "n", "i">>,
        v |-> [input |-> 110, output |-> 440]],
       [k |-> <<"o", "4", "-", "m", "i", "n", "i", "-", "d", "e", "e", "p", "-", "r", "e", "s", "e", "a", "r", "c", "h">>,
        v |-> [input |-> 200, output |-> 800]],
       [k |-> <<"o", "3", "-", "m", "i", "n", "i">>,
        v |-> [input |-> 110, output |-> 440]],
       [k |-> <<"o", "1", "-", "m", "i", "n", "i">>,
        v |-> [input |-> 110, output |-> 440]],
       [k |-> <<"c", "o", "d", "e", "x", "-", "m", "i", "n", "i", "-", "l", "a", "t", "e", "s", "t">>,
        v |-> [input |-> 150, output |-> 600]],
       [k |-> <<"g", "p", "t", "-", "5", "-", "s", "e", "a", "r", "c", "h", "-", "a", "p", "i">>,
        v |-> [input |-> 125, output |-> 1000]],
       [k |-> <<"g", "p", "t", "-", "4", "o", "-", "m", "i", "n", "i", "-", "s", "e", "a", "r", "c", "h", "-", "p", "r", "e", "v", "i", "e", "w">>,
        v |-> [input |-> 15, output |-> 60]],
       [k |-> <<"g", "p", "t", "-", "4", "o", "-", "s", "e", "a", "r", "c", "h", "-", "p", "r", "e", "v", "i", "e", "w">>,
        v |-> [input |-> 250, output |-> 1000]],
       [k |-> <<"c", "o", "m", "p", "u", "t", "e", "r", "-", "u", "s", "e", "-", "p", "r", "e", "v", "i", "e", "w">>,
        v |-> [input |-> 300, output |-> 1200]],
       [k |-> <<"g", "p", "t", "-", "i", "m", "a", "g", "e", "-", "1">>,
        v |-> [input |-> 500, output |-> 0]],
       [k |-> <<"g", "p", "t", "-", "i", "m", "a", "g", "e", "-", "1", "-", "m", "i", "n", "i">>,
        v |-> [input |-> 200, output |-> 0]] >>

\* a Python str of the given characters
PyStr(chars) == [t |-> "text", v |-> chars, d |-> 1]

\* the characters str.strip() removes
Whitespace == { " ", "\t", "\n" }

UpperCase == <<"A", "B", "C", "D", "E", "F", "G", "H", "I", "J", "K", "L", "M",
               "N", "O", "P", "Q", "R", "S", "T", "U", "V", "W", "X", "Y", "Z">>
LowerCase == <<"a", "b", "c", "d", "e", "f", "g", "h", "i", "j", "k", "l", "m",
               "n", "o", "p", "q", "r", "s", "t", "u", "v", "w", "x", "y", "z">>

\* str.lower()
Lower(s) ==
    [i \in DOMAIN s |->
        IF \E n \in DOMAIN UpperCase : UpperCase[n] = s[i]
        THEN LowerCase[CHOOSE n \in DOMAIN UpperCase : UpperCase[n] = s[i]]
        ELSE s[i]]

\* str.strip()
RECURSIVE LStrip(_)
LStrip(s) == IF s # <<>> /\ Head(s) \in Whitespace THEN LStrip(Tail(s)) ELSE s
RECURSIVE RStrip(_)
RStrip(s) ==
    IF s # <<>> /\ s[Len(s)] \in Whitespace THEN RStrip(SubSeq(s, 1, Len(s) - 1))
    ELSE s
Strip(s) == RStrip(LStrip(s))

\* s.split(sep)[-1], sep one character: what follows the last sep, all of s
\* if there is none
RECURSIVE SplitLast(_, _)
SplitLast(s, sep) ==
    IF \E i \in DOMAIN s : s[i] = sep
    THEN SplitLast(Drop(s, CHOOSE i \in DOMAIN s : s[i] = sep /\ \A j \in 1..(i - 1) : s[j] # sep), sep)
    ELSE s

\* sub in s, for strs
IsSubstring(sub, s) ==
    \E i \in 0..(Len(s) - Len(sub)) : SubSeq(s, i + 1, i + Len(sub)) = sub

\* bool(value) of a JSON value or a str
Truthy(value) ==
    CASE value.t = "null" -> FALSE
      [] value.t = "text" -> value.v # <<>>
      [] value.t = "str" -> TRUE
      [] value.t \in { "nan", "inf" } -> TRUE
      [] OTHER -> value.v # 0

\* lines 48-50 with the last matching key returned
RECURSIVE PricesScanLast(_, _)
PricesScanLast(table, normalized) ==
    IF table = <<>> THEN <<>>
    ELSE IF IsSubstring(table[Len(table)].k, normalized) THEN table[Len(table)].k
    ELSE PricesScanLast(SubSeq(table, 1, Len(table) - 1), normalized)

\* lines 48-51: the first key of the table that occurs in normalized, or ""
RECURSIVE PricesScan(_, _)
PricesScan(table, normalized) ==
    IF table = <<>> THEN <<>>
    ELSE IF IsSubstring(Head(table).k, normalized) THEN Head(table).k
    ELSE PricesScan(Tail(table), normalized)

\* lines 38-51: the key, or the exception raised
normalize_model_key(name) ==
    IF ~Truthy(name) THEN [err |-> "none", key |-> <<>>]
    ELSE IF name.t # "text" THEN [err |-> "AttributeError", key |-> <<>>]
    ELSE LET normalized == Lower(Strip(name.v))
             tail == SplitLast(SplitLast(normalized, "."), "/")
         IN  IF DictHas(PRICES, normalized) THEN [err |-> "none", key |-> normalized]
             ELSE IF DictHas(PRICES, tail) THEN [err |-> "none", key |-> tail]
             ELSE [err |-> "none", key |-> PricesScan(PRICES, normalized)]

\* a token count or 0.0 (lines 59-60): [err, v, d] for the float v / d
TokensOrZero(tokens) ==
    IF ~Truthy(tokens) THEN [err |-> "none", v |-> 0, d |-> 1]
    ELSE IF tokens.t \in { "int", "float", "bool" }
    THEN [err |-> "none", v |-> tokens.v, d |-> tokens.d]
    ELSE IF tokens.t \in { "nan", "inf" }
    THEN [err |-> "none", v |-> tokens.v, d |-> 0]
    ELSE [err |-> "TypeError", v |-> 0, d |-> 1]

\* lines 56-61 without the guard of lines 56-57
CostOfKeyUnguarded(k, input_tokens, output_tokens) ==
    IF ~DictHas(PRICES, k) THEN [err |-> "KeyError", cost |-> JNull]
    ELSE LET price == DictGet(PRICES, k)
             i == TokensOrZero(input_tokens)
             o == TokensOrZero(output_tokens)
         IN  IF i.err # "none" THEN [err |-> i.err, cost |-> JNull]
             ELSE IF o.err # "none" THEN [err |-> o.err, cost |-> JNull]
             ELSE [err |-> "none",
                   cost |-> JFloat(i.v * price.input * o.d + o.v * price.output * i.d,
                                   i.d * o.d * 100000000)]

\* lines 56-61: the cost of the tokens at the prices of key k, in USD, as
\* the exact quotient v / d (d = 0 for nan or inf tokens)
CostOfKey(k, input_tokens, output_tokens) ==
    IF k = <<>> \/ ~DictHas(PRICES, k) THEN [err |-> "none", cost |-> JFloat(0, 1)]
    ELSE LET price == DictGet(PRICES, k)
             i == TokensOrZero(input_tokens)
             o == TokensOrZero(output_tokens)
         IN  IF i.err # "none" THEN [err |-> i.err, cost |-> JNull]
             ELSE IF o.err # "none" THEN [err |-> o.err, cost |-> JNull]
             ELSE [err |-> "none",
                   cost |-> JFloat(i.v * price.input * o.d + o.v * price.output * i.d,
                                   i.d * o.d * 100000000)]

\* lines 54-61
compute_cost_usd(name, input_tokens, output_tokens) ==
    LET n == normalize_model_key(name)
    IN  IF n.err # "none" THEN [err |-> n.err, cost |-> JNull]
        ELSE CostOfKey(n.key, input_tokens, output_tokens)

\* the model names handed to the cost estimator
ModelNames ==
    { lead \o provider \o body \o trail :
        lead \in { <<>>, <<" ">> },
        provider \in { <<>>, <<"o", "p", "e", "n", "a", "i", ".">>,
                       <<"o", "p", "e", "n", "a", "i", "/">>,
                       <<"a", ".", "b", "/">>, <<"a", "/", "b", ".">> },
        body \in { <<>>, <<"g", "p", "t", "-", "5">>, <<"G", "P", "T", "-", "5">>,
                   <<"g", "p", "t", "-", "5", "-", "m", "i", "n", "i">>,
                   <<"g", "p", "t", "-", "4", ".", "1", "-", "n", "a", "n", "o">>,
                   <<"o", "1", "-", "m", "i", "n", "i">>,
                   <<"l", "l", "a", "m", "a">> },
        trail \in { <<>>, <<"\n">>, <<"-", "x">> } }

\* the model arguments: a str, None, or a JSON number
ModelArguments == { PyStr(n) : n \in ModelNames } \cup { JNull, JInt(0), JInt(5) }

\* the token-count arguments
TokenArguments == { JNull, JInt(0), JInt(1000), JFloat(5, 2), JStr(1) }

CInit ==
    /\ model \in ModelArguments
    /\ avg_input_tokens \in TokenArguments
    /\ avg_output_tokens \in TokenArguments
    /\ ckey = <<>>
    /\ cost = JNull
    /\ craised = "none"
    /\ cpc = "call"
    /\ AIdle
    /\ GIdle
    /\ DIdle
    /\ LIdle
    /\ PIdle
    /\ MIdle

\* line 55
NormalizeKey ==
    /\ cpc = "call"
    /\ LET n == normalize_model_key(model)
       IN  /\ ckey' = n.key
           /\ craised' = n.err
           /\ cpc' = IF n.err = "none" THEN "normalized" ELSE "raised"
    /\ UNCHANGED <<model, avg_input_tokens, avg_output_tokens, cost>>
    /\ UNCHANGED besidesC

\* lines 56-61
Cost ==
    /\ cpc = "normalized"
    /\ LET c == CostOfKey(ckey, avg_input_tokens, avg_output_tokens)
       IN  /\ cost' = c.cost
           /\ craised' = c.err
           /\ cpc' = IF c.err = "none" THEN "done" ELSE "raised"
    /\ UNCHANGED <<model, avg_input_tokens, avg_output_tokens, ckey>>
    /\ UNCHANGED besidesC

CNext == NormalizeKey \/ Cost

SpecCost == CInit /\ [][CNext]_vars

----------------------------------------------------------------------------
(* aggregate_directory and write_summary, lines 111-139 *)

\* the names of the files of the data directory: per-run files of the
\* cohorts 'a', 'b' and 'a_id1', and a file that is no per-run file
DataNames ==
    { RunFile(<<"a">>, <<"1">>), RunFile(<<"a">>, <<"2">>),
      RunFile(<<"b">>, <<"1">>),
      RunFile(<<"a", "_", "i", "d", "1">>, <<"2">>),
      <<"a">> \o SummarySuffix }

\* what a file of the data directory holds: {"m": 1}, {"m": 4}, {"m": an
\* int beyond the float range}, {}, JSON that is no object, no JSON
DataContents ==
    { [kind |-> "object", items |-> <<[k |-> "m", v |-> value]>>] :
        value \in { JInt(1), JInt(4), JInt(2 * FloatMax) } }
    \cup { [kind |-> "object", items |-> <<>>],
           [kind |-> "not-object", items |-> <<>>],
           [kind |-> "not-json", items |-> <<>>] }

\* the data directories of at most MaxEntries files
DataTrees ==
    UNION { [names -> DataContents] :
              names \in { n \in SUBSET DataNames : Cardinality(n) <= MaxEntries } }

\* lines 46-50 over the entries in the order the scan yields them
RECURSIVE GlobLoop(_, _)
GlobLoop(grps, entries) ==
    IF entries = <<>> THEN grps
    ELSE GlobLoop(IF GlobJson(Head(entries)) THEN GroupsAdd(grps, Head(entries))
                  ELSE grps,
                  Tail(entries))

\* collect_groups(data_dir), the scan yielding the entries in this order
collect_groups(entries) == GlobLoop(<<>>, entries)

\* the orders in which the scan may yield the entries of a directory
GlobOrders(names) == { l \in Lists(names) : Len(l) = Cardinality(names) }

\* sorted(groups.items()) with the items kept in insertion order
AsInserted(items) == items

\* sorted(groups.items()): by prefix, the prefixes being distinct
RECURSIVE InsertItem(_, _)
InsertItem(item, sorted) ==
    IF sorted = <<>> THEN <<item>>
    ELSE IF StrLess(item.k, Head(sorted).k) THEN <<item>> \o sorted
    ELSE <<Head(sorted)>> \o InsertItem(item, Tail(sorted))

RECURSIVE SortedItems(_)
SortedItems(items) ==
    IF items = <<>> THEN <<>>
    ELSE InsertItem(Head(items), SortedItems(Tail(items)))

\* line 131: the name of the artifact of the cohort
OutputName(prefix) == prefix \o SummarySuffix

\* lines 111-114: what the written file holds
write_summary(averaged) == [kind |-> "object", items |-> averaged]

\* the notices of lines 127, 134, 137, 139
NoMatchNotice == [n |-> "no matching", prefix |-> <<>>, count |-> 0, w |-> <<>>]
SkipNotice(prefix) == [n |-> "skipping", prefix |-> prefix, count |-> 0, w |-> <<>>]
WroteNotice(prefix, count) == [n |-> "wrote", prefix |-> prefix, count |-> count, w |-> <<>>]
WarningNotice(warning) == [n |-> "warning", prefix |-> <<>>, count |-> 0, w |-> <<warning>>]
WarningNotices(warns) == [i \in DOMAIN warns |-> WarningNotice(warns[i])]

DInit ==
    /\ data_kind \in { "missing", "file", "dir" }
    /\ same_dir \in BOOLEAN
    /\ tree \in (IF data_kind = "dir" THEN DataTrees ELSE { NoFile })
    /\ tree0 = tree
    /\ summary_made \in (IF same_dir THEN { data_kind = "dir" } ELSE BOOLEAN)
    /\ summary = NoFile
    /\ written = <<>>
    /\ printed = <<>>
    /\ dgroups = <<>>
    /\ dtodo = <<>>
    /\ draised = "none"
    /\ dpc = "call"
    /\ AIdle
    /\ GIdle
    /\ CIdle
    /\ LIdle
    /\ PIdle
    /\ MIdle

\* lines 118-119 alone: only a missing data_dir raises
CheckDataDirExists ==
    /\ dpc = "call"
    /\ draised' = IF data_kind = "missing" THEN "FileNotFoundError" ELSE "none"
    /\ dpc' = IF data_kind = "missing" THEN "raised" ELSE "makedirs"
    /\ UNCHANGED <<data_kind, same_dir, tree, tree0, summary_made, summary,
                   written, printed, dgroups, dtodo>>
    /\ UNCHANGED besidesD

\* lines 118-121
CheckDataDir ==
    /\ dpc = "call"
    /\ draised' = CASE data_kind = "missing" -> "FileNotFoundError"
                    [] data_kind = "file" -> "NotADirectoryError"
                    [] OTHER -> "none"
    /\ dpc' = IF data_kind = "dir" THEN "makedirs" ELSE "raised"
    /\ UNCHANGED <<data_kind, same_dir, tree, tree0, summary_made, summary,
                   written, printed, dgroups, dtodo>>
    /\ UNCHANGED besidesD

\* line 123
MakeDirs ==
    /\ dpc = "makedirs"
    /\ summary_made' = TRUE
    /\ dpc' = "collect"
    /\ UNCHANGED <<data_kind, same_dir, tree, tree0, summary, written, printed,
                   dgroups, dtodo, draised>>
    /\ UNCHANGED besidesD

\* lines 125-130 without the early return of lines 126-128
CollectGroupsOnly ==
    /\ dpc = "collect"
    /\ \E entries \in GlobOrders(DOMAIN tree) :
         LET grps == collect_groups(entries)
         IN  /\ dgroups' = grps
             /\ dtodo' = SortedItems(grps)
    /\ dpc' = "loop"
    /\ UNCHANGED <<data_kind, same_dir, tree, tree0, summary_made, summary,
                   written, printed, draised>>
    /\ UNCHANGED besidesD

\* lines 125-130: the groups are collected and sorted, or the pass ends
\* with the notice of line 127
CollectGroups ==
    /\ dpc = "collect"
    /\ \E entries \in GlobOrders(DOMAIN tree) :
         LET grps == collect_groups(entries)
         IN  /\ dgroups' = grps
             /\ dtodo' = SortedItems(grps)
             /\ printed' = IF grps = <<>> THEN Append(printed, NoMatchNotice)
                           ELSE printed
             /\ dpc' = IF grps = <<>> THEN "done" ELSE "loop"
    /\ UNCHANGED <<data_kind, same_dir, tree, tree0, summary_made, summary,
                   written, draised>>
    /\ UNCHANGED besidesD

\* lines 133-139, r being what average_group(files) returned or raised
Emit(prefix, files, r) ==
    IF r.raised # "none"
    THEN /\ draised' = r.raised
         /\ dpc' = "raised"
         /\ UNCHANGED <<tree, summary, written, printed, dtodo>>
    ELSE IF r.result = <<>>
    THEN /\ printed' = Append(printed, SkipNotice(prefix))
         /\ dtodo' = Tail(dtodo)
         /\ UNCHANGED <<tree, summary, written, draised, dpc>>
    ELSE /\ tree' = IF same_dir
                    THEN (OutputName(prefix) :> write_summary(r.result)) @@ tree
                    ELSE tree
         /\ summary' = IF same_dir THEN summary
                       ELSE (OutputName(prefix) :> write_summary(r.result)) @@ summary
         /\ written' = Append(written, OutputName(prefix))
         /\ printed' = Append(printed, WroteNotice(prefix, Len(files)))
                           \o WarningNotices(r.warnings)
         /\ dtodo' = Tail(dtodo)
         /\ UNCHANGED <<draised, dpc>>

\* lines 130-139: one cohort is averaged and its artifact written
Cohort ==
    /\ dpc = "loop"
    /\ dtodo # <<>>
    /\ Emit(Head(dtodo).k, Head(dtodo).v, average_group(Head(dtodo).v, tree))
    /\ UNCHANGED <<data_kind, same_dir, tree0, summary_made, dgroups>>
    /\ UNCHANGED besidesD

\* the loop of line 130 is over and aggregate_directory returns
Return ==
    /\ dpc = "loop"
    /\ dtodo = <<>>
    /\ dpc' = "done"
    /\ UNCHANGED <<data_kind, same_dir, tree, tree0, summary_made, summary,
                   written, printed, dgroups, dtodo, draised>>
    /\ UNCHANGED besidesD

DNext == CheckDataDir \/ MakeDirs \/ CollectGroups \/ Cohort \/ Return

SpecDir == DInit /\ [][DNext]_vars

----------------------------------------------------------------------------
(* The body of the loop of load_merge1_summaries for a file whose name      *)
(* matched, generate_merge1_plots.py lines 82-106 (load_summaries of        *)
(* generate_merge_compare_plots.py, lines 59-83, is the same code).         *)

SKIP_KEYS == { "number of runs" }

\* the items a summary file may hold under key k: none, or one of values
Field(k, values) == { <<>> } \cup { <<[k |-> k, v |-> value]>> : value \in values }

\* the objects a summary file holds: what the aggregator writes (averages
\* as floats, non-numeric values copied, the run count) and a model name
SummaryObjects ==
    { a \o b \o c \o d \o e \o f :
        a \in Field("model name", { PyStr(<<"g", "p", "t", "-", "5">>), PyStr(<<>>),
                                    JNull, JInt(5) }),
        b \in Field("m", { JFloat(5, 2), JInt(4), JBool(TRUE), JStr(1), JNull, JNaN }),
        c \in Field("avg_input_tokens", { JFloat(16, 1), JStr(1) }),
        d \in Field("avg_output_tokens", { JFloat(5, 2) }),
        e \in Field("avg_cost_usd", { JFloat(1, 1), JStr(1) }),
        f \in Field("number of runs", { JInt(2) }) }

\* what a summary file holds
SummaryContents ==
    { [kind |-> "object", items |-> o] : o \in SummaryObjects }
    \cup { [kind |-> "not-object", items |-> <<>>],
           [kind |-> "not-json", items |-> <<>>] }

\* the model groups of the file names
FileModels == { <<"g", "p", "t", "-", "4", "o">>, <<"l", "l", "a", "m", "a">> }

\* isinstance(value, (int, float)) as is_number has it: no bool, finite
IsInstanceNumber(value) == is_number(value) = "True"

\* line 92: isinstance(value, (int, float)); bool is a subclass of int
IsInstanceIntFloat(value) == value.t \in { "int", "bool", "float", "nan", "inf" }

\* line 93: float(value), or the exception raised
ToFloat(value) ==
    IF value.t \in { "int", "bool" }
    THEN LET f == FloatOf(JInt(value.v))
         IN  [err |-> f.err, value |-> JFloat(f.f, 1)]
    ELSE [err |-> "none", value |-> value]

\* dict.get(key, default)
DictGetOr(dict, name, default) ==
    IF DictHas(dict, name) THEN DictGet(dict, name) ELSE default

\* dict.setdefault(key, value)
DictSetDefault(dict, name, value) ==
    IF DictHas(dict, name) THEN dict ELSE DictSet(dict, name, value)

\* line 97: data.get("model name") or model
ModelArgument(object, from_name) ==
    IF Truthy(DictGetOr(object, "model name", JNull))
    THEN DictGet(object, "model name")
    ELSE PyStr(from_name)

LInit ==
    /\ summary_file \in SummaryContents
    /\ file_model \in FileModels
    /\ payload = <<>>
    /\ lidx = 0
    /\ metrics = <<>>
    /\ stored = FALSE
    /\ lraised = "none"
    /\ lpc = "load"
    /\ AIdle
    /\ GIdle
    /\ CIdle
    /\ DIdle
    /\ PIdle
    /\ MIdle

\* lines 82-89: the file is parsed; a JSONDecodeError skips it, anything
\* but an object has no items()
LoadJson ==
    /\ lpc = "load"
    /\ payload' = summary_file.items
    /\ lidx' = 1
    /\ lpc' = CASE summary_file.kind = "not-json" -> "skipped"
                [] summary_file.kind = "not-object" -> "raised"
                [] OTHER -> "items"
    /\ lraised' = IF summary_file.kind = "not-object" THEN "AttributeError"
                  ELSE "none"
    /\ UNCHANGED <<summary_file, file_model, metrics, stored>>
    /\ UNCHANGED besidesL

\* lines 89-93: one (key, value) of data.items()
Metric ==
    /\ lpc = "items"
    /\ lidx <= Len(payload)
    /\ LET item == payload[lidx]
           f == ToFloat(item.v)
       IN  IF item.k \in SKIP_KEYS \/ ~IsInstanceIntFloat(item.v)
           THEN UNCHANGED <<metrics, lraised, lpc>>
           ELSE IF f.err # "none"
           THEN lraised' = f.err /\ lpc' = "raised" /\ UNCHANGED metrics
           ELSE metrics' = DictSet(metrics, item.k, f.value) /\ UNCHANGED <<lraised, lpc>>
    /\ lidx' = lidx + 1
    /\ UNCHANGED <<summary_file, file_model, payload, stored>>
    /\ UNCHANGED besidesL

\* lines 95-101, c being what compute_cost_usd returned or raised
SetCost(c) ==
    IF c.err # "none"
    THEN lraised' = c.err /\ lpc' = "raised" /\ UNCHANGED metrics
    ELSE /\ metrics' = DictSetDefault(metrics, "avg_cost_usd", c.cost)
         /\ lpc' = "store"
         /\ UNCHANGED lraised

\* lines 95-101: the cost is derived when a token count is a metric
DeriveCost ==
    /\ lpc = "items"
    /\ lidx > Len(payload)
    /\ IF DictHas(metrics, "avg_input_tokens") \/ DictHas(metrics, "avg_output_tokens")
       THEN SetCost(compute_cost_usd(ModelArgument(payload, file_model),
                                     DictGetOr(metrics, "avg_input_tokens", JFloat(0, 1)),
                                     DictGetOr(metrics, "avg_output_tokens", JFloat(0, 1))))
       ELSE lpc' = "store" /\ UNCHANGED <<metrics, lraised>>
    /\ UNCHANGED <<summary_file, file_model, payload, lidx, stored>>
    /\ UNCHANGED besidesL

\* lines 103-106: metrics is stored unless it is empty
Store ==
    /\ lpc = "store"
    /\ stored' = (metrics # <<>>)
    /\ lpc' = IF metrics = <<>> THEN "skipped" ELSE "stored"
    /\ UNCHANGED <<summary_file, file_model, payload, lidx, metrics, lraised>>
    /\ UNCHANGED besidesL

LNext == LoadJson \/ Metric \/ DeriveCost \/ Store

SpecLoad == LInit /\ [][LNext]_vars

----------------------------------------------------------------------------
(* main, collect_metric_names and plot_for_size of                          *)
(* generate_merge_compare_plots.py, lines 113-171. data is the nested dict  *)
(* load_summaries returned, size -> model -> merge -> metrics, held as a    *)
(* function of <<size, model, merge>>; every metrics dict is non-empty      *)
(* (line 80). A chart is the sequence of the lines plotted into it.         *)

\* the sizes, model groups, merge sizes and metrics dicts of the summaries
PlotSizes == { 1, 2 }
PlotModels == { <<"x">>, <<"a", "/", "b">> }
PlotMerges == { 1, 2 }
PlotMetrics ==
    { <<[k |-> <<"m">>, v |-> JFloat(1, 1)]>>,
      <<[k |-> <<"n">>, v |-> JFloat(5, 2)]>>,
      <<[k |-> <<"m">>, v |-> JFloat(3, 1)], [k |-> <<"n">>, v |-> JFloat(1, 1)]>> }

\* what load_summaries may have returned from at most MaxLoaded summaries
LoadedData ==
    UNION { [slots -> PlotMetrics] :
              slots \in { sl \in SUBSET (PlotSizes \X PlotModels \X PlotMerges) :
                            Cardinality(sl) <= MaxLoaded } }

\* sorted() of a set of ints
RECURSIVE SortedInts(_)
SortedInts(ints) ==
    IF ints = {} THEN <<>>
    ELSE LET least == CHOOSE x \in ints : \A y \in ints : x <= y
         IN  <<least>> \o SortedInts(ints \ { least })

\* sorted() of a set of strings
RECURSIVE SortedNames(_)
SortedNames(names) ==
    IF names = {} THEN <<>>
    ELSE LET least == CHOOSE x \in names : \A y \in names \ { x } : StrLess(x, y)
         IN  <<least>> \o SortedNames(names \ { least })

\* lines 113-119
collect_metric_names(d) == SortedNames(UNION { DictKeys(d[slot]) : slot \in DOMAIN d })

\* the keys of data, of data[size] and of data[size][model]
SizeKeys(d) == { slot[1] : slot \in DOMAIN d }
ModelKeys(d, size) == { slot[2] : slot \in { sl \in DOMAIN d : sl[1] = size } }
MergeKeys(d, size, mdl) ==
    { slot[3] : slot \in { sl \in DOMAIN d : sl[1] = size /\ sl[2] = mdl } }

\* line 167: all(len(merge_map) < 2 for merge_map in models.values())
NothingToCompare(d, size) ==
    \A mdl \in ModelKeys(d, size) : Cardinality(MergeKeys(d, size, mdl)) < 2

\* lines 136 and 140-141: the merges of the model that have the metric,
\* sorted
Pairs(d, size, mdl, metric) ==
    SortedInts({ merge \in MergeKeys(d, size, mdl) :
                   DictHas(d[<<size, mdl, merge>>], metric) })

\* a single point is taken for a line
EnoughPointsOne(pairs) == Len(pairs) >= 1

\* lines 137-139: at least two merge points form a line
EnoughPoints(pairs) == Len(pairs) >= 2

\* str.replace(old, new) for a one-character old
Replace(chars, old, new) ==
    [i \in DOMAIN chars |-> IF chars[i] = old THEN new ELSE chars[i]]

\* lines 140-144: the line plt.plot draws for the model
Line(d, size, mdl, metric) ==
    LET merges == Pairs(d, size, mdl, metric)
    IN  [label |-> Replace(mdl, "/", "_"),
         merge_values |-> merges,
         metric_values |-> [i \in DOMAIN merges |->
                               DictGet(d[<<size, mdl, merges[i]>>], metric)]]

\* lines 135-145 for the models in the order given
RECURSIVE LinesLoop(_, _, _, _)
LinesLoop(d, size, models, metric) ==
    IF models = <<>> THEN <<>>
    ELSE (IF EnoughPoints(Pairs(d, size, Head(models), metric))
          THEN <<Line(d, size, Head(models), metric)>>
          ELSE <<>>)
         \o LinesLoop(d, size, Tail(models), metric)

\* str(n) of a natural number
DigitChar(n) ==
    CASE n = 0 -> "0" [] n = 1 -> "1" [] n = 2 -> "2" [] n = 3 -> "3"
      [] n = 4 -> "4" [] n = 5 -> "5" [] n = 6 -> "6" [] n = 7 -> "7"
      [] n = 8 -> "8" [] n = 9 -> "9"

RECURSIVE Digits(_)
Digits(n) ==
    IF n < 10 THEN <<DigitChar(n)>>
    ELSE Digits(n \div 10) \o <<DigitChar(n % 10)>>

\* line 154: f"size{size}_{metric}.png"
ChartName(size, metric) ==
    <<"s", "i", "z", "e">> \o Digits(size) \o <<"_">> \o metric
        \o <<".", "p", "n", "g">>

PInit ==
    /\ loaded \in LoadedData
    /\ metric_names = <<>>
    /\ sizes_todo = <<>>
    /\ psize = 0
    /\ metrics_todo = <<>>
    /\ charts = NoFile
    /\ output_made = FALSE
    /\ pnotice = FALSE
    /\ ppc = "call"
    /\ AIdle
    /\ GIdle
    /\ CIdle
    /\ DIdle
    /\ LIdle
    /\ MIdle

\* lines 161-166: nothing loaded ends main with a notice; otherwise the
\* metric names are collected and the sizes sorted
PlotMain ==
    /\ ppc = "call"
    /\ IF DOMAIN loaded = {}
       THEN /\ pnotice' = TRUE
            /\ ppc' = "done"
            /\ UNCHANGED <<metric_names, sizes_todo>>
       ELSE /\ metric_names' = collect_metric_names(loaded)
            /\ sizes_todo' = SortedInts(SizeKeys(loaded))
            /\ ppc' = "sizes"
            /\ UNCHANGED pnotice
    /\ UNCHANGED <<loaded, psize, metrics_todo, charts, output_made>>
    /\ UNCHANGED besidesP

\* lines 166-169 and 127: a size with no model of two merge variants is
\* passed over, for any other plot_for_size is entered
NextSize ==
    /\ ppc = "sizes"
    /\ sizes_todo # <<>>
    /\ sizes_todo' = Tail(sizes_todo)
    /\ IF NothingToCompare(loaded, Head(sizes_todo))
       THEN UNCHANGED <<psize, metrics_todo, output_made, ppc>>
       ELSE /\ psize' = Head(sizes_todo)
            /\ metrics_todo' = metric_names
            /\ output_made' = TRUE
            /\ ppc' = "metrics"
    /\ UNCHANGED <<loaded, metric_names, charts, pnotice>>
    /\ UNCHANGED besidesP

\* lines 133-157, lines being what lines 135-145 plotted: the chart is
\* saved unless nothing was plotted
SaveChart(metric, lines) ==
    charts' = IF lines = <<>> THEN charts
              ELSE (ChartName(psize, metric) :> lines) @@ charts

\* lines 129-157: one metric of plot_for_size
PlotMetric ==
    /\ ppc = "metrics"
    /\ metrics_todo # <<>>
    /\ SaveChart(Head(metrics_todo),
                 LinesLoop(loaded, psize, SortedNames(ModelKeys(loaded, psize)),
                           Head(metrics_todo)))
    /\ metrics_todo' = Tail(metrics_todo)
    /\ UNCHANGED <<loaded, metric_names, sizes_todo, psize, output_made,
                   pnotice, ppc>>
    /\ UNCHANGED besidesP

\* plot_for_size returns
EndSize ==
    /\ ppc = "metrics"
    /\ metrics_todo = <<>>
    /\ ppc' = "sizes"
    /\ UNCHANGED <<loaded, metric_names, sizes_todo, psize, metrics_todo,
                   charts, output_made, pnotice>>
    /\ UNCHANGED besidesP

\* the loop of line 165 is over and main returns
PlotReturn ==
    /\ ppc = "sizes"
    /\ sizes_todo = <<>>
    /\ ppc' = "done"
    /\ UNCHANGED <<loaded, metric_names, sizes_todo, psize, metrics_todo,
                   charts, output_made, pnotice>>
    /\ UNCHANGED besidesP

PNext == PlotMain \/ NextSize \/ PlotMetric \/ EndSize \/ PlotReturn

SpecPlot == PInit /\ [][PNext]_vars

----------------------------------------------------------------------------
(* The post-processing commands of main.py, lines 88-92, each run with no   *)
(* arguments in SCRIPT_DIR: average_statistics.py (aggregate_directory of   *)
(* ./data into ./summary, lines 142-165), generate_merge1_plots.py and      *)
(* generate_merge_compare_plots.py, each scanning its DATA_DIR. Of the two  *)
(* plotting commands the files they read are kept; what is done with a file *)
(* that was read is the loader body and the plotter above.                  *)

\* average_statistics.py lines 148-158: the default directories
DefaultDataDir == "data"
DefaultSummaryDir == "summary"

\* generate_merge1_plots.py line 29, generate_merge_compare_plots.py line 30
Merge1DataDir == "summary"
CompareDataDir == "data"

\* the files of a directory of SCRIPT_DIR, and whether it exists
FilesOf(dir) == IF dir = DefaultDataDir THEN tree ELSE summary
Exists(dir) == IF dir = DefaultDataDir THEN data_kind # "missing" ELSE summary_made

\* the file name in a directory
InDir(dir, name) == [dir |-> dir, name |-> name]

\* int(digits)
IsDigit(c) == \E n \in 0..9 : DigitChar(n) = c
DigitValue(c) == CHOOSE n \in 0..9 : DigitChar(n) = c

RECURSIVE IntOf(_)
IntOf(digits) ==
    IF digits = <<>> THEN 0
    ELSE 10 * IntOf(SubSeq(digits, 1, Len(digits) - 1))
             + DigitValue(digits[Len(digits)])

StartsWith(s, prefix) ==
    /\ Len(s) >= Len(prefix)
    /\ SubSeq(s, 1, Len(prefix)) = prefix

\* '\d+' matches all of s
IsDigits(s) == s # <<>> /\ \A i \in DOMAIN s : IsDigit(s[i])

ModelMark == <<"m", "o", "d", "e", "l", "_">>
SizeMark == <<"_", "s", "i", "z", "e">>
MergeMark == <<"_", "m", "e", "r", "g", "e">>

\* '_size(\d+)_merge(\d+)_summary\.json$' matches all of s with a digits
\* in the size group: the groups, or none
SizeMergeGroups(s, a) ==
    LET afterSize == Drop(s, Len(SizeMark) + a)
        digits == { b \in 1..(Len(afterSize) - Len(MergeMark)) :
                      /\ StartsWith(afterSize, MergeMark)
                      /\ IsDigits(SubSeq(afterSize, Len(MergeMark) + 1, Len(MergeMark) + b))
                      /\ SuffixMatches(Drop(afterSize, Len(MergeMark) + b)) }
    IN  IF /\ Len(s) >= Len(SizeMark) + a
           /\ StartsWith(s, SizeMark)
           /\ IsDigits(SubSeq(s, Len(SizeMark) + 1, Len(SizeMark) + a))
           /\ digits # {}
        THEN { [size |-> SubSeq(s, Len(SizeMark) + 1, Len(SizeMark) + a),
                merge |-> SubSeq(afterSize, Len(MergeMark) + 1, Len(MergeMark) + b)] :
                 b \in digits }
        ELSE {}

\* the ways FILENAME_PATTERN matches name: k characters (no newline) in the
\* model group, then the size and merge groups
FilenameMatches(name) ==
    UNION { { [k |-> k, model |-> SubSeq(name, Len(ModelMark) + 1, Len(ModelMark) + k),
               size |-> g.size, merge |-> g.merge] :
                g \in SizeMergeGroups(Drop(name, Len(ModelMark) + k), a) } :
            k \in { j \in 1..(Len(name) - Len(ModelMark)) :
                      /\ StartsWith(name, ModelMark)
                      /\ \A i \in 1..j : name[Len(ModelMark) + i] # "\n" },
            a \in 1..Len(name) }

\* FILENAME_PATTERN.match(name), lines 32-34: '.+' is greedy; the groups
\* size and merge as lines 75 and 79 convert them
FILENAME_PATTERN(name) ==
    IF FilenameMatches(name) = {}
    THEN [match |-> FALSE, model |-> <<>>, size |-> 0, merge |-> 0]
    ELSE LET r == CHOOSE x \in FilenameMatches(name) :
                      \A y \in FilenameMatches(name) : y.k <= x.k
         IN  [match |-> TRUE, model |-> r.model, size |-> IntOf(r.size),
              merge |-> IntOf(r.merge)]

\* data_dir.glob("model_*_summary.json")
GlobModelSummary(name) ==
    /\ Len(name) >= Len(ModelMark) + Len(SummarySuffix)
    /\ StartsWith(name, ModelMark)
    /\ Drop(name, Len(name) - Len(SummarySuffix)) = SummarySuffix

\* the names of the directory a loader comes to read: those of the scan
\* that match, for load_merge1_summaries of merge size 1 only (lines 70-77)
NamesToRead(files, merge1_only) ==
    { name \in DOMAIN files :
        /\ GlobModelSummary(name)
        /\ FILENAME_PATTERN(name).match
        /\ merge1_only => FILENAME_PATTERN(name).merge = 1 }

\* the names a loader has read when it returns or raises: all it comes to,
\* or, a file that holds no object raising AttributeError at data.items(),
\* that file and any of the others the scan yielded before it
NamesRead(files, names) ==
    IF \A name \in names : files[name].kind # "not-object"
    THEN { [raised |-> "none", read |-> names] }
    ELSE { [raised |-> "AttributeError", read |-> before \cup { bad }] :
             bad \in { name \in names : files[name].kind = "not-object" },
             before \in SUBSET { name \in names : files[name].kind # "not-object" } }

\* the cohorts of the experiments, model x at size 1 with merge sizes 1, 2
Merge1Key ==
    <<"m", "o", "d", "e", "l", "_", "x", "_", "s", "i", "z", "e", "1", "_",
      "m", "e", "r", "g", "e", "1">>
Merge2Key ==
    <<"m", "o", "d", "e", "l", "_", "x", "_", "s", "i", "z", "e", "1", "_",
      "m", "e", "r", "g", "e", "2">>

\* the names of ./data: per-run files of the two cohorts and of a cohort
\* 'a', and a file named as an artifact
PostNames ==
    { RunFile(Merge1Key, <<"1">>), RunFile(Merge1Key, <<"2">>),
      RunFile(Merge2Key, <<"1">>), RunFile(<<"a">>, <<"1">>),
      Merge1Key \o SummarySuffix }

\* what a file of ./data holds
PostContents ==
    { [kind |-> "object", items |-> <<[k |-> "m", v |-> JInt(1)]>>],
      [kind |-> "not-object", items |-> <<>>],
      [kind |-> "not-json", items |-> <<>>] }

\* ./data with at most MaxEntries files
PostTrees ==
    UNION { [names -> PostContents] :
              names \in { n \in SUBSET PostNames : Cardinality(n) <= MaxEntries } }

PostInit ==
    /\ data_kind \in { "missing", "file", "dir" }
    /\ same_dir = (DefaultDataDir = DefaultSummaryDir)
    /\ tree \in (IF data_kind = "dir" THEN PostTrees ELSE { NoFile })
    /\ tree0 = tree
    /\ summary_made \in BOOLEAN
    /\ summary = NoFile
    /\ written = <<>>
    /\ printed = <<>>
    /\ dgroups = <<>>
    /\ dtodo = <<>>
    /\ draised = "none"
    /\ dpc = "call"
    /\ step = "average_statistics"
    /\ merge1_read = {}
    /\ compare_read = {}
    /\ post_raised = "none"
    /\ AIdle
    /\ GIdle
    /\ CIdle
    /\ LIdle
    /\ PIdle

\* main.py lines 68-71 and 89: average_statistics.py has ended; check=True
\* raises when it ended with an exception
AverageStatisticsExit ==
    /\ step = "average_statistics"
    /\ dpc \in { "done", "raised" }
    /\ step' = IF dpc = "done" THEN "generate_merge1_plots" ELSE "failed"
    /\ post_raised' = IF dpc = "done" THEN "none" ELSE "CalledProcessError"
    /\ UNCHANGED <<merge1_read, compare_read>>
    /\ UNCHANGED besidesM
    /\ UNCHANGED dvars

\* a plotting command over the directory dir, r being what its loader read
\* and raised: the next command runs unless this one failed
PlotCommand(dir, r, next) ==
    /\ step' = IF r.raised = "none" THEN next ELSE "failed"
    /\ post_raised' = r.raised

\* main.py line 90: generate_merge1_plots.py, lines 64-77 and 152-154
GenerateMerge1Plots ==
    /\ step = "generate_merge1_plots"
    /\ IF ~Exists(Merge1DataDir)
       THEN /\ PlotCommand(Merge1DataDir,
                           [raised |-> "FileNotFoundError", read |-> {}], "failed")
            /\ UNCHANGED merge1_read
       ELSE \E r \in NamesRead(FilesOf(Merge1DataDir),
                               NamesToRead(FilesOf(Merge1DataDir), TRUE)) :
              /\ PlotCommand(Merge1DataDir, r, "generate_merge_compare_plots")
              /\ merge1_read' = { InDir(Merge1DataDir, name) : name \in r.read }
    /\ UNCHANGED compare_read
    /\ UNCHANGED besidesM
    /\ UNCHANGED dvars

\* main.py line 91: generate_merge_compare_plots.py, lines 39-57 and
\* 160-161
GenerateMergeComparePlots ==
    /\ step = "generate_merge_compare_plots"
    /\ IF ~Exists(CompareDataDir)
       THEN /\ PlotCommand(CompareDataDir,
                           [raised |-> "FileNotFoundError", read |-> {}], "failed")
            /\ UNCHANGED compare_read
       ELSE \E r \in NamesRead(FilesOf(CompareDataDir),
                               NamesToRead(FilesOf(CompareDataDir), FALSE)) :
              /\ PlotCommand(CompareDataDir, r, "done")
              /\ compare_read' = { InDir(CompareDataDir, name) : name \in r.read }
    /\ UNCHANGED merge1_read
    /\ UNCHANGED besidesM
    /\ UNCHANGED dvars

PostNext ==
    \/ CheckDataDir
    \/ MakeDirs
    \/ CollectGroups
    \/ Cohort
    \/ Return
    \/ AverageStatisticsExit
    \/ GenerateMerge1Plots
    \/ GenerateMergeComparePlots

SpecPost == PostInit /\ [][PostNext]_vars

----------------------------------------------------------------------------
(* The vocabulary of the properties of average_group *)

\* average_group has returned the AggregateRecord of a non-empty cohort
Returned == pc = "done" /\ file_list # <<>>

\* the records of the cohort, in cohort order: ascending by file name
CohortOrder ==
    CHOOSE l \in Lists(DOMAIN disk) :
        /\ Len(l) = Cardinality(DOMAIN disk)
        /\ \A i, j \in DOMAIN l : i < j => StrLess(l[i], l[j])

CohortSize == Cardinality(DOMAIN disk)

Has(p, key) == DictHas(disk[p].items, key)

ValueIn(p, key) == DictGet(disk[p].items, key)

\* a JSON integer or floating-point number that is not NaN or Infinity
FiniteNumber(value) == value.t \in { "int", "float" }

NumericIn(key) == { p \in DOMAIN disk : Has(p, key) /\ FiniteNumber(ValueIn(p, key)) }

NonNumericIn(key) ==
    { p \in DOMAIN disk : Has(p, key) /\ ~FiniteNumber(ValueIn(p, key)) }

\* v1 + ... + vM over the numeric occurrences of key, added in cohort order
RECURSIVE SumOver(_, _)
SumOver(key, order) ==
    IF order = <<>> THEN 0
    ELSE LET p == order[Len(order)]
             before == SumOver(key, SubSeq(order, 1, Len(order) - 1))
         IN  IF p \in NumericIn(key)
             THEN FAdd(before, FloatOf(ValueIn(p, key)).f)
             ELSE before

\* (v1 + ... + vM) / M
Average(key) == JFloat(SumOver(key, CohortOrder), Cardinality(NumericIn(key)))

CoverageWarnings(key) ==
    { i \in DOMAIN warnings : warnings[i].w = "coverage" /\ warnings[i].key = key }

\* one coverage warning for key, reporting 'M/N', iff M < N
CoverageReported(key, M, N) ==
    IF M < N
    THEN /\ Cardinality(CoverageWarnings(key)) = 1
         /\ \A i \in CoverageWarnings(key) :
                warnings[i].count = M /\ warnings[i].total = N
    ELSE CoverageWarnings(key) = {}

\* key is numeric in M >= 1 records of the cohort and absent from the others
NumericOrAbsent(key) == NumericIn(key) # {} /\ NonNumericIn(key) = {}

----------------------------------------------------------------------------
(* C1 *)

\* C1 as stated: for every field numeric in M >= 1 of the N records and
\* absent from the others, the AggregateRecord holds (v1+...+vM)/M for it,
\* and a coverage warning 'M/N' is emitted for it iff M < N.
C1_AverageOfEveryField ==
    Returned =>
        \A key \in Keys :
            NumericOrAbsent(key) =>
                /\ DictHas(result, key)
                /\ DictGet(result, key) = Average(key)
                /\ CoverageReported(key, Cardinality(NumericIn(key)), CohortSize)

\* C1 amended: the same for every field other than 'number of runs', whose
\* value is the cohort size; the coverage warning is emitted for every field.
C1_Average ==
    Returned =>
        \A key \in Keys :
            NumericOrAbsent(key) =>
                /\ DictHas(result, key)
                /\ key # "number of runs" => DictGet(result, key) = Average(key)
                /\ CoverageReported(key, Cardinality(NumericIn(key)), CohortSize)

\* a cohort of 3 records with "m" numeric in exactly 2 of them has been averaged
C1_Witness ==
    /\ Returned
    /\ CohortSize = 3
    /\ NumericOrAbsent("m")
    /\ Cardinality(NumericIn("m")) = 2
    /\ \E p, q \in NumericIn("m") : ValueIn(p, "m") # ValueIn(q, "m")

----------------------------------------------------------------------------
(* C2 *)

\* C2: the AggregateRecord of a non-empty cohort has 'number of runs' equal
\* to the number of records of the cohort, also when input records hold a
\* field of that name.
C2_RunCount ==
    Returned =>
        /\ DictHas(result, "number of runs")
        /\ DictGet(result, "number of runs") = JInt(CohortSize)

\* returned for a cohort with a numeric and a non-numeric user field
\* 'number of runs', neither equal to the cohort size
C2_Witness ==
    /\ Returned
    /\ \E p, q \in DOMAIN disk :
         /\ Has(p, "number of runs") /\ Has(q, "number of runs")
         /\ ValueIn(p, "number of runs") = JInt(4)
         /\ ValueIn(q, "number of runs") = JStr(1)

----------------------------------------------------------------------------
(* C4 *)

\* the record with the lexicographically smallest file name among paths
Smallest(paths) == CHOOSE p \in paths : \A q \in paths : q = p \/ StrLess(p, q)

\* key is non-numeric in every record of the cohort that contains it
NonNumericOnly(key) == NonNumericIn(key) # {} /\ NumericIn(key) = {}

\* C4 as stated: for every field non-numeric in all records that contain
\* it, the AggregateRecord holds the value of the record with the
\* lexicographically smallest file name among them, whatever the order in
\* which the files were supplied.
C4_SmallestNameWinsEveryField ==
    Returned =>
        \A key \in Keys :
            NonNumericOnly(key) =>
                /\ DictHas(result, key)
                /\ DictGet(result, key) = ValueIn(Smallest(NonNumericIn(key)), key)

\* C4 amended: the same for every field other than 'number of runs'.
C4_SmallestNameWins ==
    Returned =>
        \A key \in Keys \ { "number of runs" } :
            NonNumericOnly(key) =>
                /\ DictHas(result, key)
                /\ DictGet(result, key) = ValueIn(Smallest(NonNumericIn(key)), key)

\* returned for files supplied with another record first than the smallest
\* one holding "m", the two disagreeing on its non-numeric value
C4_Witness ==
    /\ Returned
    /\ NonNumericOnly("m")
    /\ file_list[1] \in NonNumericIn("m")
    /\ file_list[1] # Smallest(NonNumericIn("m"))
    /\ ValueIn(file_list[1], "m") # ValueIn(Smallest(NonNumericIn("m")), "m")

----------------------------------------------------------------------------
(* C5 *)

\* every file read so far has been processed to its end
BetweenFiles == pc \in { "loop", "done" }

InconsistentWarnings(key, p) ==
    { i \in DOMAIN warnings :
        /\ warnings[i].w = "inconsistent"
        /\ warnings[i].key = key
        /\ warnings[i].name = p }

\* the non-numeric occurrences of key after the first one in cohort order
LaterNonNumeric(key) ==
    IF NonNumericIn(key) = {} THEN {}
    ELSE NonNumericIn(key) \ { Smallest(NonNumericIn(key)) }

FirstSeen(key) == ValueIn(Smallest(NonNumericIn(key)), key)

\* value equality as Python compares: NaN is unequal to every value, itself
\* included
ComparesUnequal(a, b) == a.t = "nan" \/ b.t = "nan" \/ a # b

\* an exception out of the items loop was raised by a JSON number
RaisedByNumberOnly ==
    (pc = "raised" /\ raised = "OverflowError") => FiniteNumber(data[idx - 1].v)

\* C5 as stated: every non-numeric occurrence of a field after the first
\* one in cohort order gets exactly one consistency warning naming the field
\* and its file if its value differs from the first-seen value and none if
\* it is equal; no exception is raised, and the first-seen value is kept in
\* the AggregateRecord.
C5_FirstSeenKeptInRecord ==
    /\ BetweenFiles =>
         \A key \in Keys : \A p \in LaterNonNumeric(key) :
             Cardinality(InconsistentWarnings(key, p)) =
                 IF ComparesUnequal(ValueIn(p, key), FirstSeen(key)) THEN 1 ELSE 0
    /\ RaisedByNumberOnly
    /\ Returned =>
         \A key \in Keys :
             LaterNonNumeric(key) # {} =>
                 DictHas(result, key) /\ DictGet(result, key) = FirstSeen(key)

\* C5 amended: the warning is emitted iff the value compares unequal to the
\* first-seen non-numeric value (NaN compares unequal to itself); no
\* exception is raised; the first-seen value stays the authoritative
\* non-numeric value and is the AggregateRecord's value of the field unless
\* the field also has a numeric occurrence or is named 'number of runs'.
C5_FirstSeenKept ==
    /\ BetweenFiles =>
         \A key \in Keys :
             /\ \A p \in LaterNonNumeric(key) :
                    Cardinality(InconsistentWarnings(key, p)) =
                        IF ComparesUnequal(ValueIn(p, key), FirstSeen(key))
                        THEN 1 ELSE 0
             /\ NonNumericIn(key) # {} =>
                    /\ DictHas(non_numeric, key)
                    /\ DictGet(non_numeric, key) = FirstSeen(key)
    /\ RaisedByNumberOnly
    /\ Returned =>
         \A key \in Keys \ { "number of runs" } :
             (LaterNonNumeric(key) # {} /\ NumericIn(key) = {}) =>
                 DictHas(result, key) /\ DictGet(result, key) = FirstSeen(key)

\* returned for a cohort where "m" is non-numeric in three records: one
\* later occurrence differs from the first-seen value, the other equals it
C5_Witness ==
    /\ Returned
    /\ NonNumericOnly("m")
    /\ \E p, q \in LaterNonNumeric("m") :
         /\ ValueIn(p, "m") # FirstSeen("m")
         /\ ValueIn(q, "m") = FirstSeen("m")
         /\ FirstSeen("m").t # "nan"
         /\ Cardinality(InconsistentWarnings("m", p)) = 1
         /\ InconsistentWarnings("m", q) = {}

----------------------------------------------------------------------------
(* C6 *)

\* the numeric averages of an AggregateRecord
Averages(res) == { res[i] : i \in { j \in DOMAIN res : res[j].v.t = "float" } }

\* the orders in which the files of the cohort can be supplied
SuppliedOrders(files) == { l \in Lists(DOMAIN disk) : Len(l) = Len(files) }

\* C6: supplying the files of the cohort in any other order gives the same
\* numeric averages.
C6_OrderIndependentAverages ==
    Returned =>
        \A l \in SuppliedOrders(file_list) :
            Averages(average_group(l, disk).result) = Averages(result)

\* returned for three numeric occurrences of "m" whose float sum depends on
\* the order of addition, supplied in another order than the cohort order
C6_Witness ==
    /\ Returned
    /\ Cardinality(NumericIn("m")) = 3
    /\ file_list # CohortOrder
    /\ SumOver("m", file_list) # SumOver("m", CohortOrder)

----------------------------------------------------------------------------
(* C7 *)

\* the field names that occur in at least one record of the cohort
FieldNames == UNION { DictKeys(disk[p].items) : p \in DOMAIN disk }

\* C7: the keys of the AggregateRecord of a non-empty cohort are the field
\* names of its records and 'number of runs', each exactly once.
C7_KeysAreFieldNames ==
    Returned =>
        /\ DictKeys(result) = FieldNames \cup { "number of runs" }
        /\ \A i, j \in DOMAIN result : result[i].k = result[j].k => i = j

\* returned for a cohort whose first record has a field and lacks "m",
\* which a later record holds as a non-numeric value
C7_Witness ==
    /\ Returned
    /\ CohortSize >= 2
    /\ disk[CohortOrder[1]].items # <<>>
    /\ ~Has(CohortOrder[1], "m")
    /\ NonNumericOnly("m")

----------------------------------------------------------------------------
(* C8 *)

\* the step of the items loop counts and adds the current occurrence
Contributes ==
    LET key == data[idx].k
    IN  /\ DictHas(counts', key) /\ DictHas(sums', key)
        /\ DictGet(counts', key) = DictGetDefault(counts, key, 0) + 1
        /\ DictGet(sums', key) =
               FAdd(DictGetDefault(sums, key, 0), FloatOf(data[idx].v).f)

\* the step of the items loop takes the non-numeric branch
HandledAsNonNumeric ==
    /\ sums' = sums /\ counts' = counts
    /\ DictHas(non_numeric', data[idx].k)
    /\ pc' = "items"

\* C8: an occurrence contributes to the sum and the count of its field iff
\* its value is a finite integer or floating-point number; every other
\* value is handled on the non-numeric branch.
C8_NumbersContribute ==
    [][(pc = "items" /\ idx <= Len(data)) =>
          IF FiniteNumber(data[idx].v) THEN Contributes ELSE HandledAsNonNumeric]_vars

----------------------------------------------------------------------------
(* C9 *)

\* key is numeric in some records of the cohort and non-numeric in others
Mixed(key) == NumericIn(key) # {} /\ NonNumericIn(key) # {}

ConsistencyChecked(key) ==
    \A p \in LaterNonNumeric(key) :
        Cardinality(InconsistentWarnings(key, p)) =
            IF ComparesUnequal(ValueIn(p, key), FirstSeen(key)) THEN 1 ELSE 0

\* C9 as stated: for every field numeric in some records and non-numeric
\* in others, the AggregateRecord holds the average over the numeric
\* occurrences only, the non-numeric occurrences are consistency-checked
\* against the first of them, and no non-numeric value is in the output.
C9_MixedEveryField ==
    Returned =>
        \A key \in Keys :
            Mixed(key) =>
                /\ DictHas(result, key)
                /\ DictGet(result, key) = Average(key)
                /\ ConsistencyChecked(key)

\* C9 amended: the same for every field other than 'number of runs', whose
\* value is the cohort size; the consistency check covers every field.
C9_Mixed ==
    Returned =>
        \A key \in Keys :
            Mixed(key) =>
                /\ DictHas(result, key)
                /\ key # "number of runs" => DictGet(result, key) = Average(key)
                /\ DictGet(result, key).t \in { "float", "int" }
                /\ ConsistencyChecked(key)

\* returned for a cohort where "m" is numeric in one record and non-numeric,
\* with two different values, in two others
C9_Witness ==
    /\ Returned
    /\ Mixed("m")
    /\ \E p \in LaterNonNumeric("m") :
         /\ ValueIn(p, "m") # FirstSeen("m")
         /\ Cardinality(InconsistentWarnings("m", p)) = 1

----------------------------------------------------------------------------
(* C10 *)

\* C10: 'number of runs' is the last field of the AggregateRecord of every
\* non-empty cohort, also when input records hold a field of that name.
C10_RunCountLast ==
    Returned => result[Len(result)].k = "number of runs"

----------------------------------------------------------------------------
(* C3 *)

\* collect_groups has returned
Grouped == gpc = "done"

\* the cohort keys under which name is filed
CohortsOf(name) ==
    { groups[i].k : i \in { j \in DOMAIN groups :
                              \E n \in DOMAIN groups[j].v : groups[j].v[n] = name } }

\* the ways to read name as <key>_id<token>_summary.json, key and token
\* not empty
Readings(name) ==
    { r \in { [key |-> SubSeq(name, 1, i),
               token |-> SubSeq(name, i + 4, Len(name) - Len(SummarySuffix))] :
                 i \in 1..Len(name) } :
        r.token # <<>> /\ name = RunFile(r.key, r.token) }

\* a run id: not empty, no underscore in it
RunId(token) == token # <<>> /\ \A i \in DOMAIN token : token[i] # "_"

\* the readings whose token is a run id and whose key has no line break
RunReadings(name) ==
    { r \in Readings(name) :
        RunId(r.token) /\ \A i \in DOMAIN r.key : r.key[i] # "\n" }

\* C3 as stated: a file is in a cohort iff its name reads as
\* <key>_id<token>_summary.json, it is filed under that key, and two files
\* are in the same cohort iff they differ only in the token.
C3_GroupedIffShaped ==
    Grouped =>
        /\ \A name \in data_dir :
             /\ CohortsOf(name) # {} <=> Readings(name) # {}
             /\ CohortsOf(name) \subseteq { r.key : r \in Readings(name) }
             /\ Cardinality(CohortsOf(name)) <= 1
        /\ \A f, g \in data_dir :
             (CohortsOf(f) # {} /\ CohortsOf(g) # {}) =>
                 (CohortsOf(f) = CohortsOf(g) <=>
                      \E r \in Readings(f), q \in Readings(g) : r.key = q.key)

\* C3 amended: the same with <token> a run id (not empty, no underscore)
\* and <key> not empty and without a line break; such a name reads in one
\* way only, and the file is filed once, under that key.
C3_Grouped ==
    Grouped =>
        /\ \A name \in data_dir :
             /\ CohortsOf(name) # {} <=> RunReadings(name) # {}
             /\ CohortsOf(name) = { r.key : r \in RunReadings(name) }
             /\ Cardinality(CohortsOf(name)) <= 1
             /\ \A i \in DOMAIN groups :
                    Cardinality({ n \in DOMAIN groups[i].v : groups[i].v[n] = name }) <= 1
        /\ \A f, g \in data_dir :
             (CohortsOf(f) # {} /\ CohortsOf(g) # {}) =>
                 (CohortsOf(f) = CohortsOf(g) <=>
                      \E r \in RunReadings(f), q \in RunReadings(g) : r.key = q.key)

\* collect_groups has returned one cohort of two files, the key of which
\* itself holds an '_id<token>' segment
C3_Witness ==
    /\ Grouped
    /\ Len(groups) = 1
    /\ Len(groups[1].v) = 2
    /\ groups[1].k = <<"a", "_", "i", "d", "1">>

----------------------------------------------------------------------------
(* The vocabulary of the properties of the cost estimator *)

\* the keys of the price table
PriceKeys == { PRICES[i].k : i \in DOMAIN PRICES }

\* the name trimmed and lower-cased
Normalized(chars) == Lower(Strip(chars))

\* the position of the last '/' or '.' of s, 0 if it has none
LastSeparator(s) ==
    IF \E i \in DOMAIN s : s[i] \in { "/", "." }
    THEN CHOOSE i \in DOMAIN s :
             s[i] \in { "/", "." } /\ \A j \in (i + 1)..Len(s) : s[j] \notin { "/", "." }
    ELSE 0

\* what follows the last separator of either style
AfterLastSeparator(s) == SubSeq(s, LastSeparator(s) + 1, Len(s))

\* the positions in the price table of the keys that occur in s
SubstringKeys(s) == { i \in DOMAIN PRICES : IsSubstring(PRICES[i].k, s) }

\* the first of them in insertion order
FirstSubstringKey(s) ==
    PRICES[CHOOSE i \in SubstringKeys(s) : \A j \in SubstringKeys(s) : i <= j].k

\* the tier that resolves the name: "a", "b", "c" or "none"
Tier(chars) ==
    IF Normalized(chars) \in PriceKeys THEN "a"
    ELSE IF AfterLastSeparator(Normalized(chars)) \in PriceKeys THEN "b"
    ELSE IF SubstringKeys(Normalized(chars)) # {} THEN "c"
    ELSE "none"

\* the key the three tiers resolve the name to, <<>> for none
ThreeTiers(chars) ==
    CASE Tier(chars) = "a" -> Normalized(chars)
      [] Tier(chars) = "b" -> AfterLastSeparator(Normalized(chars))
      [] Tier(chars) = "c" -> FirstSubstringKey(Normalized(chars))
      [] OTHER -> <<>>

\* a model identifier (a str or None) that resolves to no key
Unresolved(name) ==
    \/ name.t = "null"
    \/ name.t = "text" /\ Tier(name.v) = "none"

\* compute_cost_usd is over, returned or raised
CostOver == cpc \in { "done", "raised" }

----------------------------------------------------------------------------
(* C11 *)

\* C11: for every model identifier that resolves to no key of the price
\* table (the empty string and None among them) and any token counts,
\* compute_cost_usd returns 0.0 and raises nothing.
C11_UnresolvedCostsNothing ==
    (CostOver /\ Unresolved(model)) =>
        /\ cpc = "done"
        /\ craised = "none"
        /\ cost = JFloat(0, 1)

\* returned for a non-empty name no tier resolves, with a token count that
\* is None and one that is no number
C11_Witness ==
    /\ cpc = "done"
    /\ model.t = "text"
    /\ Strip(model.v) # <<>>
    /\ Unresolved(model)
    /\ avg_input_tokens = JNull
    /\ avg_output_tokens = JStr(1)

----------------------------------------------------------------------------
(* C12 *)

\* C12: normalize_model_key resolves a name by (a) the trimmed, lower-cased
\* name if it is a key, else (b) what follows the last '/' or '.' if that is
\* a key, else (c) the first key in insertion order that occurs in the
\* normalized name, else the empty result; a later tier only when every
\* earlier one found nothing.
C12_ThreeTiers ==
    (cpc # "call" /\ cpc # "idle" /\ model.t = "text") => ckey = ThreeTiers(model.v)

\* a name resolved by tier (b) to another key than tier (c) would find, the
\* first key occurring in it not being the first of the table
C12_Witness ==
    /\ cpc = "done"
    /\ model.t = "text"
    /\ Tier(model.v) = "b"
    /\ SubstringKeys(Normalized(model.v)) # {}
    /\ FirstSubstringKey(Normalized(model.v)) # ckey
    /\ 1 \notin SubstringKeys(Normalized(model.v))

----------------------------------------------------------------------------
(* The vocabulary of the properties of aggregate_directory *)

\* aggregate_directory is over: it returned or an exception left it
PassOver == dpc \in { "done", "raised" }

\* name is a per-run result file name
PerRun(name) == RunReadings(name) # {}

\* the cohort key of a per-run result file name
KeyOf(name) == (CHOOSE r \in RunReadings(name) : TRUE).key

\* the per-run result files of the directory t, and those of cohort K
PerRunFiles(t) == { name \in DOMAIN t : PerRun(name) }
Members(t, K) == { name \in PerRunFiles(t) : KeyOf(name) = K }

\* the cohort keys of the directory t
CohortKeys(t) == { KeyOf(name) : name \in PerRunFiles(t) }

\* the file holds a JSON object
Readable(t, name) == t[name].kind = "object"

\* what average_group makes of the records of cohort K of directory t
\* alone: [result, warnings, raised]
Reconciled(t, K) ==
    average_group(CHOOSE l \in GlobOrders(Members(t, K)) : TRUE, t)

\* the names of the artifacts written in this pass
WrittenNames == { written[i] : i \in DOMAIN written }

\* the files of the summary directory
SummaryFiles == IF same_dir THEN tree ELSE summary

\* block occurs in printed, followed by no further warning
PrintedBlock(block) ==
    \E i \in 0..(Len(printed) - Len(block)) :
        /\ SubSeq(printed, i + 1, i + Len(block)) = block
        /\ i + Len(block) < Len(printed) => printed[i + Len(block) + 1].n # "warning"

----------------------------------------------------------------------------
(* C13 *)

\* C13: when data_dir does not exist or is no directory, aggregate_directory
\* fails with an error before any side effect: no step creates the summary
\* directory and no artifact is written.
C13_FailsBeforeSideEffects ==
    /\ [](data_kind # "dir" =>
              /\ written = <<>>
              /\ summary = NoFile
              /\ tree = tree0
              /\ printed = <<>>
              /\ PassOver => dpc = "raised"
              /\ dpc = "raised" =>
                     draised = IF data_kind = "missing" THEN "FileNotFoundError"
                               ELSE "NotADirectoryError")
    /\ [][data_kind # "dir" => summary_made' = summary_made]_vars

\* the pass over a data_dir that is a regular file has failed, the summary
\* directory, another path, still missing
C13_Witness ==
    /\ dpc = "raised"
    /\ data_kind = "file"
    /\ ~same_dir
    /\ ~summary_made

----------------------------------------------------------------------------
(* C14 *)

\* C14: when the data directory holds no file with a per-run name,
\* aggregate_directory writes no artifact, prints the 'no matching files'
\* notice and returns without an error.
C14_NoMatchingFiles ==
    (data_kind = "dir" /\ PerRunFiles(tree0) = {}) =>
        /\ written = <<>>
        /\ summary = NoFile
        /\ dpc # "raised"
        /\ dpc = "done" => printed = <<NoMatchNotice>>

\* returned from a directory that holds a file, none with a per-run name
C14_Witness ==
    /\ dpc = "done"
    /\ DOMAIN tree0 # {}
    /\ PerRunFiles(tree0) = {}
    /\ printed = <<NoMatchNotice>>

----------------------------------------------------------------------------
(* C15 *)

\* C15: if a record of a cohort is malformed (no JSON, or JSON that is no
\* object), no artifact is written for that cohort in the pass.
C15_NoArtifactFromMalformed ==
    \A name \in PerRunFiles(tree0) :
        ~Readable(tree0, name) => OutputName(KeyOf(name)) \notin WrittenNames

\* the pass has written the artifact of one cohort and failed on a cohort
\* with a record that is JSON but no object
C15_Witness ==
    /\ dpc = "raised"
    /\ written # <<>>
    /\ \E name \in PerRunFiles(tree0) : tree0[name].kind = "not-object"

----------------------------------------------------------------------------
(* C16 *)

\* C16: a read failure aborts only the cohort of the failing record: when
\* the pass is over, every cohort whose records are all readable has its
\* artifact written, with the content its own records give.
C16_OtherCohortsWritten ==
    PassOver =>
        \A K \in CohortKeys(tree0) :
            ((\A name \in Members(tree0, K) : Readable(tree0, name))
             /\ Reconciled(tree0, K).raised = "none") =>
                /\ OutputName(K) \in WrittenNames
                /\ SummaryFiles[OutputName(K)] = write_summary(Reconciled(tree0, K).result)

----------------------------------------------------------------------------
(* C17 *)

\* C17: a pass never modifies its inputs: every per-run result file of
\* data_dir is there with its content unchanged, whether summary_dir is the
\* same directory or another.
C17_InputsUnchanged ==
    \A name \in PerRunFiles(tree0) :
        name \in DOMAIN tree /\ tree[name] = tree0[name]

----------------------------------------------------------------------------
(* C18 *)

\* C18: over a data directory whose per-run files are all readable JSON
\* objects the pass ends by returning, with exactly one artifact written
\* per cohort key and no other, none of them empty ('number of runs' >= 1),
\* and the 'no data to write' branch never taken.
C18_OneArtifactPerCohort ==
    (data_kind = "dir" /\ \A name \in PerRunFiles(tree0) : Readable(tree0, name)) =>
        /\ dpc # "raised"
        /\ \A i \in DOMAIN printed : printed[i].n # "skipping"
        /\ \A i, j \in DOMAIN written : written[i] = written[j] => i = j
        /\ \A name \in WrittenNames :
               /\ DictHas(SummaryFiles[name].items, "number of runs")
               /\ DictGet(SummaryFiles[name].items, "number of runs").v >= 1
        /\ dpc = "done" =>
               WrittenNames = { OutputName(K) : K \in CohortKeys(tree0) }

----------------------------------------------------------------------------
(* C19 *)

\* C19: what a pass produces for a cohort depends on the records of that
\* cohort only: when the pass is over, the artifact of cohort K and the
\* warnings printed for it are those its own records give, whatever other
\* cohorts the directory holds.
C19_CohortsIndependent ==
    PassOver =>
        \A K \in CohortKeys(tree0) :
            IF Reconciled(tree0, K).raised = "none"
            THEN /\ OutputName(K) \in WrittenNames
                 /\ SummaryFiles[OutputName(K)] = write_summary(Reconciled(tree0, K).result)
                 /\ PrintedBlock(<<WroteNotice(K, Cardinality(Members(tree0, K)))>>
                                     \o WarningNotices(Reconciled(tree0, K).warnings))
            ELSE OutputName(K) \notin WrittenNames

----------------------------------------------------------------------------
(* C20 *)

\* the loop of lines 89-93 is over
MetricsTaken == lpc \in { "store", "stored" } \/ (lpc = "skipped" /\ payload # <<>>)

\* the fields of the summary, and the metrics, other than the derived cost
FieldsAndMetrics == (DictKeys(payload) \cup DictKeys(metrics)) \ { "avg_cost_usd" }

\* C20: the metrics the loader takes from a summary are exactly its
\* numeric fields other than 'number of runs', numeric as in is_number (an
\* int or a float, no bool); a boolean, string or null field never becomes
\* a metric.
C20_MetricsAreNumericFields ==
    MetricsTaken =>
        \A name \in FieldsAndMetrics :
            DictHas(metrics, name) <=>
                /\ DictHas(payload, name)
                /\ name \notin SKIP_KEYS
                /\ IsInstanceNumber(DictGet(payload, name))

----------------------------------------------------------------------------
(* C23 *)

\* the ways to read chars as <provider>.<key> or <provider>/<key>, <key> a
\* key of the price table and no key occurring in <provider>
ProviderReadings(chars) ==
    { r \in { [provider |-> SubSeq(chars, 1, i - 1), key |-> Drop(chars, i)] :
                i \in { j \in DOMAIN chars : chars[j] \in { ".", "/" } } } :
        /\ r.provider # <<>>
        /\ r.key \in PriceKeys
        /\ SubstringKeys(r.provider) = {} }

\* C23: for a model name '<provider>.<key>' or '<provider>/<key>' with
\* <key> a key of the price table and no key inside <provider>,
\* normalize_model_key returns <key> itself, never a shorter key that
\* occurs inside it ('openai.gpt-4.1-nano' resolves to 'gpt-4.1-nano').
C23_ProviderPrefixedKey ==
    (cpc # "call" /\ cpc # "idle" /\ model.t = "text") =>
        \A r \in ProviderReadings(model.v) : ckey = r.key

----------------------------------------------------------------------------
(* C21 *)

\* the loader is through lines 88-101 for a summary that holds an object
CostStepOver ==
    /\ summary_file.kind = "object"
    /\ lpc \in { "store", "stored", "skipped", "raised" }

\* a token count is among the numeric metrics of the summary
TokenMetric ==
    DictHas(metrics, "avg_input_tokens") \/ DictHas(metrics, "avg_output_tokens")

\* the summary holds a numeric 'avg_cost_usd' of its own
OwnCost ==
    /\ DictHas(payload, "avg_cost_usd")
    /\ IsInstanceIntFloat(DictGet(payload, "avg_cost_usd"))

\* the 'model name' field of the summary is there and not empty
NamedModel ==
    /\ DictHas(payload, "model name")
    /\ DictGet(payload, "model name") \notin { JNull, PyStr(<<>>) }

\* the model the cost is said to be computed from
CostModel == IF NamedModel THEN DictGet(payload, "model name") ELSE PyStr(file_model)

\* a token count, a missing one taken as 0
TokenCount(name) == DictGetOr(metrics, name, JFloat(0, 1))

\* C21: 'avg_cost_usd' is derived for a summary if and only if
\* 'avg_input_tokens' or 'avg_output_tokens' is among its numeric metrics;
\* the cost is computed from the 'model name' field when it is non-empty
\* and otherwise from the model of the file name, a missing token count
\* taken as 0; a numeric 'avg_cost_usd' of the summary is kept.
C21_CostDerivation ==
    CostStepOver =>
        /\ lpc # "raised"
        /\ DictHas(metrics, "avg_cost_usd") <=> (TokenMetric \/ OwnCost)
        /\ OwnCost =>
             DictGet(metrics, "avg_cost_usd")
                 = ToFloat(DictGet(payload, "avg_cost_usd")).value
        /\ (TokenMetric /\ ~OwnCost) =>
             DictGet(metrics, "avg_cost_usd")
                 = compute_cost_usd(CostModel, TokenCount("avg_input_tokens"),
                                    TokenCount("avg_output_tokens")).cost

----------------------------------------------------------------------------
(* C22 *)

\* the metric names of the summaries
PlotMetricNames == UNION { DictKeys(dict) : dict \in PlotMetrics }

\* the merge sizes at which the model has the metric for the size
MergesWith(size, mdl, metric) ==
    { merge \in PlotMerges :
        /\ <<size, mdl, merge>> \in DOMAIN loaded
        /\ DictHas(loaded[<<size, mdl, merge>>], metric) }

\* the models that have the metric at two or more merge sizes
Contributors(size, metric) ==
    { mdl \in PlotModels : Cardinality(MergesWith(size, mdl, metric)) >= 2 }

\* the merge variants of the model for the size
Variants(size, mdl) == { merge \in PlotMerges : <<size, mdl, merge>> \in DOMAIN loaded }

\* the labels of the lines of a chart
Labels(lines) == { lines[i].label : i \in DOMAIN lines }

----------------------------------------------------------------------------
(* C24 *)

\* the artifacts the aggregator wrote, where it wrote them
Artifacts == { InDir(DefaultSummaryDir, name) : name \in WrittenNames }

\* the name matches the file-name pattern of the merge-1 plotter, of the
\* merge-comparison plotter
Merge1Named(name) ==
    /\ GlobModelSummary(name)
    /\ FILENAME_PATTERN(name).match
    /\ FILENAME_PATTERN(name).merge = 1
CompareNamed(name) == GlobModelSummary(name) /\ FILENAME_PATTERN(name).match

\* the files the two plotters have read
PlottersRead == merge1_read \cup compare_read

\* neither plotter has read a per-run file
NoPerRunRead == \A f \in PlottersRead : ~PerRun(f.name)

\* the merge-1 plotter has read every artifact named for it
Merge1ReadsArtifacts ==
    \A f \in Artifacts : Merge1Named(f.name) => f \in merge1_read

\* the merge-comparison plotter has read every artifact named for it
CompareReadsArtifacts ==
    \A f \in Artifacts : CompareNamed(f.name) => f \in compare_read

\* C24: when the post-processing sequence of main.py is through with the
\* default directories, every artifact the aggregator wrote has been read
\* by each plotter whose file-name pattern it matches, both plotters have
\* scanned the directory the artifacts were written to, and neither has
\* read a per-run file.
C24_ArtifactsReachPlotters ==
    step = "done" =>
        /\ Merge1ReadsArtifacts
        /\ CompareReadsArtifacts
        /\ Merge1DataDir = DefaultSummaryDir
        /\ CompareDataDir = DefaultSummaryDir
        /\ NoPerRunRead

====
